---- MODULE Spec2Model ----
(***************************************************************************)
(* Model of the valuation tools of src/modules/tools.py.  Every tool is a  *)
(* stateless function; the state is the call in flight (the tool, its      *)
(* arguments) and the value it produced (a mapping, or a raised            *)
(* exception); prev holds the arguments and the value of the call before,  *)
(* when the runtime has just repeated a call.  Decimal quantities are kept *)
(* as scaled integers: bathrooms in halves, lot sizes in hundredths of an  *)
(* acre, condition scores in tenths, money adjustments in cents,           *)
(* confidence in tenths.                                                   *)
(***************************************************************************)
EXTENDS Integers, Sequences, FiniteSets, TLC

VARIABLES pc, tool, args, ret, prev, ui

vars == <<pc, tool, args, ret, prev, ui>>

(***************************************************************************)
(* Generic helpers                                                         *)
(***************************************************************************)
Max(a, b) == IF a >= b THEN a ELSE b

Min(a, b) == IF a <= b THEN a ELSE b

Abs(a) == IF a < 0 THEN -a ELSE a

RECURSIVE Gcd(_, _)
Gcd(a, b) == IF b = 0 THEN Abs(a) ELSE Gcd(Abs(b), Abs(a) % Abs(b))

\* the fraction n / d (d # 0) in lowest terms with a positive denominator
Frac(n, d) ==
    LET g == Gcd(n, d)
        sign == IF d < 0 THEN -1 ELSE 1
    IN  <<sign * (n \div g), sign * (d \div g)>>

\* round(n / d) to the nearest integer, ties to even (Python's round on an
\* exactly representable value), d > 0
RoundHalfEven(n, d) ==
    LET q == n \div d
        r == n % d
    IN  IF 2 * r < d THEN q
        ELSE IF 2 * r > d THEN q + 1
        ELSE IF q % 2 = 0 THEN q ELSE q + 1

RECURSIVE SumSeq(_)
SumSeq(s) == IF s = <<>> THEN 0 ELSE Head(s) + SumSeq(Tail(s))

RECURSIVE FilterSeq(_, _)
\* the subsequence of s at the indices in keep, in order
FilterSeq(s, keep) ==
    IF s = <<>> THEN <<>>
    ELSE LET rest == FilterSeq(Tail(s), {i - 1 : i \in keep \ {1}})
         IN  IF 1 \in keep THEN <<Head(s)>> \o rest ELSE rest

\* Optional[int]: <<>> is None, <<v>> is the integer v
None == <<>>

Some(v) == <<v>>

Opt(S) == {None} \cup {Some(v) : v \in S}

\* Python truthiness of an Optional[int]: None and 0 are false
Truthy(o) == o # None /\ o[1] # 0

\* dict.get(key, default) on a record
Get(d, key, default) == IF key \in DOMAIN d THEN d[key] ELSE default

(***************************************************************************)
(* mls_integration                                                         *)
(***************************************************************************)
\* the literal comparable records (price_per_sqft in cents, bathrooms in
\* halves, lot_size in hundredths of an acre)
MlsComparableSales ==
    << [address |-> "123 Main St", sale_price |-> 450000, sqft |-> 2200,
        bedrooms |-> 3, bathrooms |-> 5, lot_size |-> 25, year_built |-> 2010,
        condition |-> "Good", days_on_market |-> 45, price_per_sqft |-> 20455],
       [address |-> "456 Oak Ave", sale_price |-> 485000, sqft |-> 2400,
        bedrooms |-> 4, bathrooms |-> 6, lot_size |-> 30, year_built |-> 2015,
        condition |-> "Excellent", days_on_market |-> 28, price_per_sqft |-> 20208],
       [address |-> "789 Pine Rd", sale_price |-> 420000, sqft |-> 2000,
        bedrooms |-> 3, bathrooms |-> 4, lot_size |-> 20, year_built |-> 2008,
        condition |-> "Fair", days_on_market |-> 67, price_per_sqft |-> 21000] >>

\* the filter loop's four tests: the comp is dropped (continue) when one fires
MlsDropped(comp, a) ==
    \/ Truthy(a.min_sqft) /\ comp.sqft < a.min_sqft[1]
    \/ Truthy(a.max_sqft) /\ comp.sqft > a.max_sqft[1]
    \/ Truthy(a.min_bedrooms) /\ comp.bedrooms < a.min_bedrooms[1]
    \/ Truthy(a.max_bedrooms) /\ comp.bedrooms > a.max_bedrooms[1]

MlsFilter(a) ==
    FilterSeq(MlsComparableSales,
              {i \in DOMAIN MlsComparableSales : ~MlsDropped(MlsComparableSales[i], a)})

SalePrices(comps) == [i \in DOMAIN comps |-> comps[i].sale_price]

SortedPrices(comps) == SortSeq(SalePrices(comps), LAMBDA x, y : x < y)

\* round(total / n, digits) for the sums the literal records produce, n > 0;
\* their one tie (203.315, the mean of 204.55 and 202.08) is stored in
\* binary just below the tie and rounds down
MlsRound(total, n) ==
    IF 2 * (total % n) = n THEN total \div n
    ELSE IF 2 * (total % n) > n THEN (total \div n) + 1
    ELSE total \div n

\* avg_price_per_sqft, rounded to cents
MlsAvgPricePerSqft(comps) ==
    IF comps # <<>>
    THEN MlsRound(SumSeq([i \in DOMAIN comps |-> comps[i].price_per_sqft]), Len(comps))
    ELSE 0

\* avg_days_on_market, rounded to tenths of a day
MlsAvgDaysOnMarket(comps) ==
    IF comps # <<>>
    THEN MlsRound(SumSeq([i \in DOMAIN comps |-> comps[i].days_on_market * 10]), Len(comps))
    ELSE 0

MedianOfMut(sorted) ==
    IF Len(sorted) % 2 = 0
    THEN (sorted[Len(sorted) \div 2] + sorted[(Len(sorted) \div 2) + 1]) \div 2
    ELSE sorted[(Len(sorted) \div 2) + 1]

\* sorted(...)[len(filtered_comps) // 2], the index being 0-based
MedianOf(sorted) == sorted[(Len(sorted) \div 2) + 1]

MlsPriceRangeMut(comps) ==
    LET sp == SortedPrices(IF comps # <<>> THEN comps ELSE MlsComparableSales)
    IN  [min |-> sp[1], max |-> sp[Len(sp)], median |-> MedianOf(sp)]

MlsPriceRange(comps) ==
    IF comps # <<>>
    THEN LET sp == SortedPrices(comps)
         IN  [min |-> sp[1], max |-> sp[Len(sp)], median |-> MedianOf(sp)]
    ELSE [min |-> 0, max |-> 0, median |-> 0]

MlsResult(a) ==
    LET filtered_comps == MlsFilter(a)
    IN  [kind |-> "result",
         comparable_sales |-> filtered_comps,
         total_comparables |-> Len(filtered_comps),
         average_price_per_sqft |-> MlsAvgPricePerSqft(filtered_comps),
         average_days_on_market |-> MlsAvgDaysOnMarket(filtered_comps),
         price_range |-> MlsPriceRange(filtered_comps)]

\* the bounds a caller may pass: absent, zero, negative, and values around
\* the comps' own
MlsSqftInputs == Opt({-1, 0, 2000, 2300, 2500})

MlsBedroomInputs == Opt({-1, 0, 3, 4})

mls_integration ==
    /\ pc = "idle"
    /\ \E mn \in MlsSqftInputs, mx \in MlsSqftInputs,
          bmn \in MlsBedroomInputs, bmx \in MlsBedroomInputs :
          LET a == [min_sqft |-> mn, max_sqft |-> mx,
                    min_bedrooms |-> bmn, max_bedrooms |-> bmx]
          IN  /\ args' = a
              /\ ret' = MlsResult(a)
    /\ tool' = "mls_integration"
    /\ pc' = "done"
    /\ UNCHANGED <<prev, ui>>

(***************************************************************************)
(* avm_engine                                                              *)
(***************************************************************************)
\* datetime.now().year
CurrentYear == 2026

\* A sale_date value is one of
\*   [type |-> "str", fmt |-> f, days_ago |-> n]  a string written in format
\*        f ("ymd" = %Y-%m-%d, "mdy" = %m/%d/%Y, "other" = neither,
\*        "empty" = the empty string) naming the day n days before now
\*   [type |-> "datetime", days_ago |-> n]         a datetime object
\*   [type |-> "int"]                              a non-empty non-string
\*        value that is not a datetime (a number)
\* and a comp without the key has no sale_date field.
DateFalsy(d) == d.type = "str" /\ d.fmt = "empty"

\* datetime.strptime(s, fmt): the parsed datetime, or ValueError
Strptime(s, fmt) ==
    IF s.fmt = fmt THEN [ok |-> TRUE, days_ago |-> s.days_ago]
    ELSE [ok |-> FALSE]

Now == [kind |-> "datetime", days_ago |-> 0]

\* the element appended to comp_dates for one comp
ParseSaleDate(comp) ==
    IF "sale_date" \notin DOMAIN comp \/ DateFalsy(comp.sale_date) THEN Now
    ELSE LET sale_date == comp.sale_date
         IN  IF sale_date.type = "str"
             THEN LET first == Strptime(sale_date, "ymd")
                      second == Strptime(sale_date, "mdy")
                  IN  IF first.ok THEN [kind |-> "datetime", days_ago |-> first.days_ago]
                      ELSE IF second.ok
                           THEN [kind |-> "datetime", days_ago |-> second.days_ago]
                           ELSE Now
             ELSE IF sale_date.type = "datetime"
                  THEN [kind |-> "datetime", days_ago |-> sale_date.days_ago]
                  ELSE [kind |-> "raw"]

CompDates(comps) == [i \in DOMAIN comps |-> ParseSaleDate(comps[i])]

\* the value one comp adds to price_per_sqft_values, as a fraction
\* <<numerator, denominator>>, or <<>> when it adds none
PricePerSqftOf(comp) ==
    IF Get(comp, "price_per_sqft", 0) # 0 THEN <<comp.price_per_sqft, 1>>
    ELSE IF Get(comp, "sale_price", 0) # 0 /\ Get(comp, "sqft", 0) # 0
         THEN Frac(comp.sale_price, comp.sqft)
         ELSE <<>>

PricePerSqftValues(comps) ==
    LET all == [i \in DOMAIN comps |-> PricePerSqftOf(comps[i])]
    IN  FilterSeq(all, {i \in DOMAIN all : all[i] # <<>>})

RECURSIVE FracSum(_)
FracSum(s) ==
    IF s = <<>> THEN <<0, 1>>
    ELSE LET r == FracSum(Tail(s))
         IN  Frac(Head(s)[1] * r[2] + r[1] * Head(s)[2], Head(s)[2] * r[2])

\* sum(price_per_sqft_values) / len(price_per_sqft_values)
AvgPricePerSqft(values) ==
    LET s == FracSum(values) IN Frac(s[1], s[2] * Len(values))

\* (datetime.now() - date).days for each comp date
DaysSinceSale(dates) == [i \in DOMAIN dates |-> dates[i].days_ago]

\* max(0.85, 1.0 - age * 0.005), in thousandths
AgeAdj(age) == Max(850, 1000 - age * 5)

\* condition_multipliers.get(condition, 1.0), in tenths
ConditionAdj(condition) ==
    CASE condition = "Excellent" -> 11
      [] condition = "Good" -> 10
      [] condition = "Fair" -> 9
      [] condition = "Poor" -> 8
      [] OTHER -> 10

\* intercept + sum(coef * feature) with coefficients [150, 5000, 10000,
\* 20000, -500]; bathrooms in halves and lot_size in hundredths
RegressionValuation(a) ==
    50000 + 150 * a.property_sqft + 5000 * a.bedrooms + 5000 * a.bathrooms
          + 200 * a.lot_size + (-500) * (CurrentYear - a.year_built)

\* round(f, 2) of a fraction f, in cents
RoundCents(f) == RoundHalfEven(f[1] * 100, f[2])

SqftDiffMut(property_sqft, comp_sqft, avg_price_per_sqft) ==
    <<(property_sqft - comp_sqft) * 150, 1>>

\* sqft_diff = (property_sqft - comp_sqft) * avg_price_per_sqft, a fraction
SqftDiff(property_sqft, comp_sqft, avg_price_per_sqft) ==
    Frac((property_sqft - comp_sqft) * avg_price_per_sqft[1], avg_price_per_sqft[2])

\* adjusted_price of one comp, a fraction; bathrooms in halves (10000 each
\* whole) and lot_size in hundredths (20000 each whole)
AdjustedPrice(a, comp, avg_price_per_sqft) ==
    LET age == CurrentYear - a.year_built
        sqft_diff == SqftDiff(a.property_sqft, Get(comp, "sqft", 0), avg_price_per_sqft)
        bedroom_diff == (a.bedrooms - Get(comp, "bedrooms", 0)) * 5000
        bathroom_diff == (a.bathrooms - Get(comp, "bathrooms", 0)) * 5000
        lot_diff == (a.lot_size - Get(comp, "lot_size", 0)) * 200
        age_diff == (age - (CurrentYear - Get(comp, "year_built", CurrentYear))) * (-500)
        others == Get(comp, "sale_price", 0) + bedroom_diff + bathroom_diff
                      + lot_diff + age_diff
    IN  Frac(others * sqft_diff[2] + sqft_diff[1], sqft_diff[2])

AdjustedComps(a, avg_price_per_sqft) ==
    [i \in DOMAIN a.comparable_sales |->
        AdjustedPrice(a, a.comparable_sales[i], avg_price_per_sqft)]

\* sum(adjusted_comps) / len(adjusted_comps), adjusted_comps non-empty
AdjustedSalesValuation(adjusted_comps) ==
    LET s == FracSum(adjusted_comps) IN Frac(s[1], s[2] * Len(adjusted_comps))

\* the four bonuses, in tenths; each is 0 when its test fails
CountBonus(comps) == IF Len(comps) >= 3 THEN 3 ELSE 0

\* avg_days_since_sale and avg_days_since_sale < 180, the average being
\* sum(days) / len(days)
RecencyBonus(days) ==
    IF SumSeq(days) # 0 /\ SumSeq(days) < 180 * Len(days) THEN 2 ELSE 0

\* abs(comp["sqft"] - property_sqft) / property_sqft < 0.2, property_sqft # 0
SqftClose(comp, property_sqft) ==
    IF property_sqft > 0 THEN 5 * Abs(comp.sqft - property_sqft) < property_sqft
    ELSE TRUE

SqftBonus(comps, property_sqft) ==
    IF Cardinality({i \in DOMAIN comps : SqftClose(comps[i], property_sqft)}) >= 2
    THEN 3 ELSE 0

BedroomBonusMut(comps, bedrooms) ==
    IF Cardinality({i \in DOMAIN comps : comps[i].bedrooms = bedrooms}) >= 1
    THEN 3 ELSE 0

BedroomBonus(comps, bedrooms) ==
    IF Cardinality({i \in DOMAIN comps : comps[i].bedrooms = bedrooms}) >= 1
    THEN 2 ELSE 0

\* confidence_factors, the non-zero bonuses in the order they are appended
ConfidenceFactors(a, days) ==
    LET all == << CountBonus(a.comparable_sales),
                  RecencyBonus(days),
                  SqftBonus(a.comparable_sales, a.property_sqft),
                  BedroomBonus(a.comparable_sales, a.bedrooms) >>
    IN  FilterSeq(all, {i \in DOMAIN all : all[i] # 0})

Raise(exception) == [kind |-> "raise", exception |-> exception]

Error(message) == [kind |-> "error", error |-> message]

\* the exception of the statements after the try block, "" when none:
\* line 224 subtracts each comp date from now, line 293 reads comp["sqft"]
\* and divides by property_sqft, line 295 reads comp["bedrooms"]
AvmException(a, dates) ==
    LET comps == a.comparable_sales
    IN  IF \E i \in DOMAIN dates : dates[i].kind = "raw" THEN "TypeError"
        ELSE IF "sqft" \notin DOMAIN comps[1] THEN "KeyError"
        ELSE IF a.property_sqft = 0 THEN "ZeroDivisionError"
        ELSE IF \E i \in DOMAIN comps : "sqft" \notin DOMAIN comps[i] THEN "KeyError"
        ELSE IF \E i \in DOMAIN comps : "bedrooms" \notin DOMAIN comps[i] THEN "KeyError"
        ELSE ""

AvmHasPriceDataMut(comps) ==
    \E i \in DOMAIN comps : Get(comps[i], "price_per_sqft", 0) # 0

AvmHasPriceData(comps) == PricePerSqftValues(comps) # <<>>

AvmResult(a) ==
    LET comps == a.comparable_sales
        comp_dates == CompDates(comps)
        values == PricePerSqftValues(comps)
    IN  IF comps = <<>> THEN Error("No comparable sales data provided")
        ELSE IF ~AvmHasPriceData(comps)
             THEN Error("No valid price per square foot data available")
        ELSE IF AvmException(a, comp_dates) # "" THEN Raise(AvmException(a, comp_dates))
        ELSE LET days == DaysSinceSale(comp_dates)
                 factors == ConfidenceFactors(a, days)
                 adjusted_comps == AdjustedComps(a, AvgPricePerSqft(values))
             IN  [kind |-> "valuation",
                  price_per_sqft |-> [avg_price_per_sqft |-> AvgPricePerSqft(values),
                                      condition |-> ConditionAdj(a.condition),
                                      age |-> AgeAdj(CurrentYear - a.year_built),
                                      avg_days_since_sale |-> <<SumSeq(days), Len(days)>>],
                  regression_analysis |-> RegressionValuation(a),
                  adjusted_comparables |->
                      [value |-> RoundCents(AdjustedSalesValuation(adjusted_comps)),
                       adjusted_prices |->
                           [i \in DOMAIN adjusted_comps |-> RoundCents(adjusted_comps[i])]],
                  final_valuation |-> [confidence_factors |-> factors,
                                       confidence_score |-> SumSeq(factors)],
                  comparable_count |-> Len(comps)]

\* the comparable records a caller may pass
AvmCompPool ==
    { [sale_price |-> 400000, sqft |-> 2000, bedrooms |-> 3, price_per_sqft |-> 200,
       sale_date |-> [type |-> "str", fmt |-> "ymd", days_ago |-> 30]],
      [sale_price |-> 462000, sqft |-> 2200, bedrooms |-> 4,
       sale_date |-> [type |-> "str", fmt |-> "mdy", days_ago |-> 400]],
      [sale_price |-> 600000, sqft |-> 3000, bedrooms |-> 2,
       sale_date |-> [type |-> "str", fmt |-> "other", days_ago |-> 10]],
      [sale_price |-> 0, sqft |-> 2100, bedrooms |-> 3,
       sale_date |-> [type |-> "str", fmt |-> "empty", days_ago |-> 0]],
      [sale_price |-> 400000, bedrooms |-> 3, price_per_sqft |-> 200],
      [sale_price |-> 400000, sqft |-> 2000, price_per_sqft |-> 200],
      [sale_price |-> 400000, sqft |-> 2000, bedrooms |-> 3, price_per_sqft |-> 200,
       sale_date |-> [type |-> "int"]],
      [sale_price |-> 420000, sqft |-> 2100, bedrooms |-> 3, price_per_sqft |-> 0,
       sale_date |-> [type |-> "datetime", days_ago |-> 200]] }

MaxComps == 3

RECURSIVE SeqsUpTo(_, _)
\* the lists over S of length at most n
SeqsUpTo(S, n) ==
    IF n = 0 THEN {<<>>}
    ELSE LET shorter == SeqsUpTo(S, n - 1)
         IN  shorter \cup {Append(s, x) : s \in {t \in shorter : Len(t) = n - 1}, x \in S}

avm_engine ==
    /\ pc = "idle"
    /\ \E comps \in SeqsUpTo(AvmCompPool, MaxComps),
          sqft \in {0, 2000}, beds \in {3, 5} :
          LET a == [property_sqft |-> sqft, bedrooms |-> beds, bathrooms |-> 4,
                    lot_size |-> 25, year_built |-> 2006, condition |-> "Good",
                    comparable_sales |-> comps]
          IN  /\ args' = a
              /\ ret' = AvmResult(a)
    /\ tool' = "avm_engine"
    /\ pc' = "done"
    /\ UNCHANGED <<prev, ui>>

(***************************************************************************)
(* The random generator                                                    *)
(***************************************************************************)
\* A random stream decides, for the k-th draw of a call, whether the draw
\* lands at the low or the high end of its range.
RandStreams == {"lo", "hi", "alt"}

Draw(rng, k) == IF rng = "alt" THEN (IF k % 2 = 0 THEN "lo" ELSE "hi") ELSE rng

\* np.random.randint(low, high): an integer in low .. high - 1
RandInt(low, high, d) ==
    IF d = "lo" THEN low
    ELSE IF d = "mid" THEN (low + high - 1) \div 2
    ELSE high - 1

\* np.random.choice(options) on a list
Choice(options, d) ==
    IF d = "lo" THEN options[1]
    ELSE IF d = "mid" THEN options[(Len(options) + 1) \div 2]
    ELSE options[Len(options)]

(***************************************************************************)
(* property_condition_assessor                                             *)
(***************************************************************************)
\* the systems in the order of the systems dict
SystemNames ==
    <<"structural", "electrical", "plumbing", "hvac",
      "roofing", "exterior", "interior", "appliances">>

\* base_score and age_factor in tenths, lifespan in years
Systems ==
    [structural |-> [base_score |-> 950, age_factor |-> 15, lifespan |-> 100],
     electrical |-> [base_score |-> 900, age_factor |-> 20, lifespan |-> 30],
     plumbing   |-> [base_score |-> 850, age_factor |-> 25, lifespan |-> 40],
     hvac       |-> [base_score |-> 800, age_factor |-> 30, lifespan |-> 20],
     roofing    |-> [base_score |-> 900, age_factor |-> 25, lifespan |-> 25],
     exterior   |-> [base_score |-> 850, age_factor |-> 20, lifespan |-> 30],
     interior   |-> [base_score |-> 800, age_factor |-> 15, lifespan |-> 20],
     appliances |-> [base_score |-> 750, age_factor |-> 40, lifespan |-> 15]]

\* min(property_age * config["age_factor"], 50), in tenths
AgePenalty(config, property_age) == Min(property_age * config.age_factor, 500)

ConditionScoreMut(config, property_age) ==
    config.base_score - property_age * config.age_factor

\* max(0, config["base_score"] - age_penalty), in tenths; round(.., 1)
\* leaves a multiple of 0.5 unchanged
ConditionScore(config, property_age) ==
    Max(0, config.base_score - AgePenalty(config, property_age))

ConditionScores(property_age) ==
    [s \in DOMAIN Systems |-> ConditionScore(Systems[s], property_age)]

\* round(sum(condition_scores.values()) / len(condition_scores), 1), tenths
OverallCondition(scores) ==
    RoundHalfEven(SumSeq([i \in DOMAIN SystemNames |-> scores[SystemNames[i]]]),
                  Len(SystemNames))

ConditionRatingMut(overall_condition) ==
    IF overall_condition >= 850 THEN "Excellent"
    ELSE IF overall_condition >= 800 THEN "Good"
    ELSE IF overall_condition >= 700 THEN "Fair"
    ELSE IF overall_condition >= 600 THEN "Poor"
    ELSE "Critical"

ConditionRating(overall_condition) ==
    IF overall_condition >= 900 THEN "Excellent"
    ELSE IF overall_condition >= 800 THEN "Good"
    ELSE IF overall_condition >= 700 THEN "Fair"
    ELSE IF overall_condition >= 600 THEN "Poor"
    ELSE "Critical"

ScoreItemMut(k, property_age, rng) ==
    LET system == SystemNames[k]
        condition_score == ConditionScore(Systems[system], property_age)
    IN  IF condition_score <= 300
        THEN [list |-> "urgent", system |-> system, priority |-> "Urgent",
              estimated_cost |-> RandInt(5000, 25000, Draw(rng, k))]
        ELSE IF condition_score < 600
        THEN [list |-> "maintenance", system |-> system, priority |-> "High",
              estimated_cost |-> RandInt(1000, 8000, Draw(rng, k))]
        ELSE IF condition_score < 800
        THEN [list |-> "maintenance", system |-> system, priority |-> "Medium",
              estimated_cost |-> RandInt(200, 2000, Draw(rng, k))]
        ELSE <<>>

\* the item the score of the k-th system produces, <<>> when none
ScoreItem(k, property_age, rng) ==
    LET system == SystemNames[k]
        condition_score == ConditionScore(Systems[system], property_age)
    IN  IF condition_score < 300
        THEN [list |-> "urgent", system |-> system, priority |-> "Urgent",
              estimated_cost |-> RandInt(5000, 25000, Draw(rng, k))]
        ELSE IF condition_score < 600
        THEN [list |-> "maintenance", system |-> system, priority |-> "High",
              estimated_cost |-> RandInt(1000, 8000, Draw(rng, k))]
        ELSE IF condition_score < 800
        THEN [list |-> "maintenance", system |-> system, priority |-> "Medium",
              estimated_cost |-> RandInt(200, 2000, Draw(rng, k))]
        ELSE <<>>

ScoreItems(list, property_age, rng) ==
    LET all == [k \in DOMAIN SystemNames |-> ScoreItem(k, property_age, rng)]
    IN  FilterSeq(all, {k \in DOMAIN all : all[k] # <<>> /\ all[k].list = list})

NearEndOfLifeMut(config, property_age) == 10 * property_age >= 8 * config.lifespan

\* property_age > config["lifespan"] * 0.8
NearEndOfLife(config, property_age) == 10 * property_age > 8 * config.lifespan

RecommendedUpgrades(property_age, rng) ==
    LET all == [k \in DOMAIN SystemNames |->
                   [system |-> SystemNames[k],
                    estimated_cost |-> RandInt(3000, 15000, Draw(rng, k + 1))]]
    IN  FilterSeq(all, {k \in DOMAIN all :
                           NearEndOfLife(Systems[SystemNames[k]], property_age)})

\* the urgent entries appended for the caller's known issues (None and the
\* empty list add none)
KnownIssueItems(known_issues, rng) ==
    IF known_issues = None THEN <<>>
    ELSE [j \in DOMAIN known_issues[1] |->
             [list |-> "urgent", system |-> "General", issue |-> known_issues[1][j],
              priority |-> "High",
              estimated_cost |-> RandInt(500, 5000, Draw(rng, j))]]

ConditionResult(a, rng) ==
    LET scores == ConditionScores(a.property_age)
        overall == OverallCondition(scores)
    IN  [kind |-> "result",
         system_scores |-> scores,
         overall_condition |-> overall,
         condition_rating |-> ConditionRating(overall),
         urgent_issues |-> ScoreItems("urgent", a.property_age, rng)
                             \o KnownIssueItems(a.known_issues, rng),
         maintenance_items |-> ScoreItems("maintenance", a.property_age, rng),
         recommended_upgrades |-> RecommendedUpgrades(a.property_age, rng)]

\* property ages range over -MaxNegAge .. MaxAge
MaxNegAge == 5

MaxAge == 40

KnownIssueInputs ==
    {None, Some(<<>>), Some(<<"roof leak">>), Some(<<"roof leak", "mold">>)}

property_condition_assessor ==
    /\ pc = "idle"
    /\ \E age \in (-MaxNegAge) .. MaxAge, issues \in KnownIssueInputs,
          rng \in RandStreams :
          LET a == [property_age |-> age, known_issues |-> issues]
          IN  /\ args' = a
              /\ ret' = ConditionResult(a, rng)
    /\ tool' = "property_condition_assessor"
    /\ pc' = "done"
    /\ UNCHANGED <<prev, ui>>

(***************************************************************************)
(* comps_analyzer                                                          *)
(***************************************************************************)
\* default_factors; the condition factors are in tenths
DefaultFactors ==
    [sqft |-> 150, bedroom |-> 5000, bathroom |-> 10000, lot_size |-> 20000,
     age |-> -500,
     condition |-> [Excellent |-> 1, Good |-> 0, Fair |-> -1, Poor |-> -2],
     garage |-> 5000, pool |-> 15000, view |-> 10000]

\* adjustment_factors or default_factors: None and the empty dict, both
\* written <<>>, are falsy
FactorsFor(adjustment_factors) ==
    IF adjustment_factors = <<>> THEN DefaultFactors ELSE adjustment_factors

\* factors.get("condition", {...})
ConditionFactors(factors) == Get(factors, "condition", DefaultFactors.condition)

RecordedAdjustmentsMut(subject, comp, factors) ==
    {f \in {"sqft", "bedrooms", "bathrooms"} :
        f \in DOMAIN subject /\ f \in DOMAIN comp}
    \cup (IF "year_built" \in DOMAIN subject /\ "year_built" \in DOMAIN comp
          THEN {"age"} ELSE {})
    \cup (IF /\ "condition" \in DOMAIN subject /\ "condition" \in DOMAIN comp
             /\ subject.condition \in DOMAIN ConditionFactors(factors)
             /\ comp.condition \in DOMAIN ConditionFactors(factors)
          THEN {"condition"} ELSE {})

\* the adjustment keys recorded for one comp
RecordedAdjustments(subject, comp, factors) ==
    {f \in {"sqft", "bedrooms", "bathrooms", "lot_size"} :
        f \in DOMAIN subject /\ f \in DOMAIN comp}
    \cup (IF "year_built" \in DOMAIN subject /\ "year_built" \in DOMAIN comp
          THEN {"age"} ELSE {})
    \cup (IF /\ "condition" \in DOMAIN subject /\ "condition" \in DOMAIN comp
             /\ subject.condition \in DOMAIN ConditionFactors(factors)
             /\ comp.condition \in DOMAIN ConditionFactors(factors)
          THEN {"condition"} ELSE {})

SqftAdjMut(subject, comp, factors) ==
    (comp.sqft - subject.sqft) * Get(factors, "sqft", 150) * 100

\* sqft_diff * sqft_factor, in cents
SqftAdj(subject, comp, factors) ==
    (subject.sqft - comp.sqft) * Get(factors, "sqft", 150) * 100

\* one recorded adjustment, in cents (bathrooms are in halves, lot sizes in
\* hundredths of an acre, condition factors in tenths)
Adjustment(f, subject, comp, factors) ==
    CASE f = "sqft" -> SqftAdj(subject, comp, factors)
      [] f = "bedrooms" ->
            (subject.bedrooms - comp.bedrooms)
                * Get(factors, "bedroom", Get(factors, "bedrooms", 5000)) * 100
      [] f = "bathrooms" ->
            (subject.bathrooms - comp.bathrooms) * Get(factors, "bathroom", 10000) * 50
      [] f = "lot_size" ->
            (subject.lot_size - comp.lot_size) * Get(factors, "lot_size", 20000)
      [] f = "age" ->
            ((CurrentYear - subject.year_built) - (CurrentYear - comp.year_built))
                * Get(factors, "age", -500) * 100
      [] f = "condition" ->
            (ConditionFactors(factors)[subject.condition]
                - ConditionFactors(factors)[comp.condition])
                * Get(comp, "sale_price", 0) * 10

Adjustments(subject, comp, factors) ==
    [f \in RecordedAdjustments(subject, comp, factors) |->
        Adjustment(f, subject, comp, factors)]

RECURSIVE SumValues(_)
\* the sum of a mapping's values
SumValues(m) ==
    IF DOMAIN m = {} THEN 0
    ELSE LET k == CHOOSE x \in DOMAIN m : TRUE
         IN  m[k] + SumValues([x \in DOMAIN m \ {k} |-> m[x]])

AnalyzedCompMut(subject, comp, factors) ==
    LET adjustments == Adjustments(subject, comp, factors)
        total_adjustment == SumValues(adjustments)
    IN  [adjustments |-> adjustments,
         total_adjustment |-> total_adjustment,
         adjusted_sale_price |-> comp.sale_price * 100 - total_adjustment,
         adjustment_percentage |-> RoundHalfEven(total_adjustment * 100, comp.sale_price)]

\* analyzed_comp for a comp with a non-zero sale_price; money in cents,
\* adjustment_percentage in hundredths of a percent
AnalyzedComp(subject, comp, factors) ==
    LET adjustments == Adjustments(subject, comp, factors)
        total_adjustment == SumValues(adjustments)
    IN  [adjustments |-> adjustments,
         total_adjustment |-> total_adjustment,
         adjusted_sale_price |-> comp.sale_price * 100 + total_adjustment,
         adjustment_percentage |-> RoundHalfEven(total_adjustment * 100, comp.sale_price)]

\* the exception of line 705 for one comp, "" when none
PercentageException(comp) ==
    IF "sale_price" \notin DOMAIN comp THEN "KeyError"
    ELSE IF comp.sale_price = 0 THEN "ZeroDivisionError"
    ELSE ""

RECURSIVE GcdSeq(_)
\* the greatest common divisor of a list of integers, 1 for a list of zeros
GcdSeq(s) ==
    IF s = <<>> THEN 0
    ELSE LET g == GcdSeq(Tail(s))
         IN  IF Head(s) = 0 /\ g = 0 THEN 0
             ELSE IF g = 0 THEN Abs(Head(s))
             ELSE IF Head(s) = 0 THEN g
             ELSE Gcd(Abs(Head(s)), g)

\* coefficient_of_variation < 0.1, where coefficient_of_variation =
\* np.std(adjusted_prices) / final_valuation.  The ratio does not change
\* when every price is divided by a common divisor; on the reduced prices y
\* with sum S and n entries, std / mean < 0.1 is, for a positive mean,
\* 100 * (n * sum(y^2) - S^2) < S^2.  A negative mean gives a ratio below
\* 0; a mean of 0 gives inf or nan, which is not below 0.1.
LowPriceVariance(adjusted_prices) ==
    LET g == Max(GcdSeq(adjusted_prices), 1)
        y == [k \in DOMAIN adjusted_prices |-> adjusted_prices[k] \div g]
        n == Len(y)
        S == SumSeq(y)
        squares == SumSeq([k \in DOMAIN y |-> y[k] * y[k]])
    IN  IF S > 0 THEN 100 * (n * squares - S * S) < S * S
        ELSE S < 0

\* quality_factors, in the order they are appended
QualityFactors(comps, analyzed_comps, adjusted_prices) ==
    (IF Len(comps) >= 3 THEN <<"Sufficient comparables">> ELSE <<>>)
    \o (IF LowPriceVariance(adjusted_prices) THEN <<"Low price variance">> ELSE <<>>)
    \o (IF \A k \in DOMAIN analyzed_comps :
               Abs(analyzed_comps[k].adjustment_percentage) < 2000
        THEN <<"Reasonable adjustments">> ELSE <<>>)

RecommendationMut(quality_factors) ==
    IF 10 * Len(quality_factors) > 21 THEN "High confidence"
    ELSE IF 10 * Len(quality_factors) > 9 THEN "Medium confidence"
    ELSE "Low confidence"

\* confidence_score = len(quality_factors) / 3, compared with 0.7 and 0.4
Recommendation(quality_factors) ==
    IF 10 * Len(quality_factors) > 21 THEN "High confidence"
    ELSE IF 10 * Len(quality_factors) > 12 THEN "Medium confidence"
    ELSE "Low confidence"

\* quality_assessment; confidence_score = round(len(quality_factors) / 3, 2)
\* in hundredths
QualityAssessment(comps, analyzed_comps, adjusted_prices) ==
    LET quality_factors == QualityFactors(comps, analyzed_comps, adjusted_prices)
    IN  [confidence_score |-> RoundHalfEven(Len(quality_factors) * 100, 3),
         quality_factors |-> quality_factors,
         recommendation |-> Recommendation(quality_factors)]

CompsResult(a) ==
    LET comps == a.comparable_sales
        factors == FactorsFor(a.adjustment_factors)
        failing == {k \in DOMAIN comps : PercentageException(comps[k]) # ""}
    IN  IF comps = <<>> THEN Error("No comparable sales provided")
        ELSE IF failing # {}
             THEN Raise(PercentageException(
                      comps[CHOOSE k \in failing : \A h \in failing : k <= h]))
        ELSE LET analyzed_comps ==
                     [k \in DOMAIN comps |-> AnalyzedComp(a.subject_property, comps[k], factors)]
                 adjusted_prices ==
                     [k \in DOMAIN comps |-> analyzed_comps[k].adjusted_sale_price]
             IN  [kind |-> "result",
                  adjustment_factors |-> factors,
                  analyzed_comparables |-> analyzed_comps,
                  final_valuation |-> RoundHalfEven(SumSeq(adjusted_prices), Len(comps)),
                  quality_assessment |->
                      QualityAssessment(comps, analyzed_comps, adjusted_prices)]

\* the subjects, comps and custom factors a caller may pass
SubjectPool ==
    { [sqft |-> 2200, bedrooms |-> 3, bathrooms |-> 5, lot_size |-> 25,
       year_built |-> 2010, condition |-> "Good"],
      [sqft |-> 2200],
      [bedrooms |-> 3, condition |-> "Luxury"] }

CompsCompPool ==
    { [sale_price |-> 400000, sqft |-> 2000, bedrooms |-> 3, bathrooms |-> 4,
       lot_size |-> 20, year_built |-> 2008, condition |-> "Fair"],
      [sale_price |-> 450000, sqft |-> 2400, condition |-> "Excellent"],
      [sale_price |-> 420000, bedrooms |-> 4],
      [sale_price |-> 0, sqft |-> 2000],
      [sqft |-> 2000] }

AdjustmentFactorInputs == {<<>>, [sqft |-> 100], [bedroom |-> 4000]}

comps_analyzer ==
    /\ pc = "idle"
    /\ \E subject \in SubjectPool, comps \in SeqsUpTo(CompsCompPool, MaxComps),
          factors \in AdjustmentFactorInputs :
          LET a == [subject_property |-> subject, comparable_sales |-> comps,
                    adjustment_factors |-> factors]
          IN  /\ args' = a
              /\ ret' = CompsResult(a)
    /\ tool' = "comps_analyzer"
    /\ pc' = "done"
    /\ UNCHANGED <<prev, ui>>

(***************************************************************************)
(* maintenance_cost_estimator                                              *)
(***************************************************************************)
\* Strings are sequences of one-character strings, so that lower(),
\* replace(), split() and the substring test `in` are computed.
UpperToLower ==
    [A |-> "a", B |-> "b", C |-> "c", D |-> "d", E |-> "e",
     F |-> "f", G |-> "g", H |-> "h", I |-> "i", J |-> "j",
     K |-> "k", L |-> "l", M |-> "m", N |-> "n", O |-> "o",
     P |-> "p", Q |-> "q", R |-> "r", S |-> "s", T |-> "t",
     U |-> "u", V |-> "v", W |-> "w", X |-> "x", Y |-> "y",
     Z |-> "z"]

\* str.lower()
Lower(s) ==
    [i \in DOMAIN s |-> IF s[i] \in DOMAIN UpperToLower THEN UpperToLower[s[i]] ELSE s[i]]

\* str.replace(old, new) for one-character old and new
Replace(s, old, new) == [i \in DOMAIN s |-> IF s[i] = old THEN new ELSE s[i]]

\* sub in s
Contains(s, sub) ==
    \E i \in 0 .. (Len(s) - Len(sub)) : SubSeq(s, i + 1, i + Len(sub)) = sub

RECURSIVE Split(_, _)
\* str.split(sep) for a one-character sep
Split(s, sep) ==
    IF \A i \in DOMAIN s : s[i] # sep THEN <<s>>
    ELSE LET k == CHOOSE i \in DOMAIN s :
                      s[i] = sep /\ \A j \in 1 .. (i - 1) : s[j] # sep
         IN  <<SubSeq(s, 1, k - 1)>> \o Split(SubSeq(s, k + 1, Len(s)), sep)

\* cost_database, in dict order; complexity_factor in tenths
CostDatabase ==
    << [name |-> "roof_repair", base_cost |-> 300, per_sqft |-> TRUE, complexity_factor |-> 12,
        key |-> <<"r", "o", "o", "f", "_", "r", "e", "p", "a", "i", "r">>],
       [name |-> "roof_replacement", base_cost |-> 500, per_sqft |-> TRUE, complexity_factor |-> 15,
        key |-> <<"r", "o", "o", "f", "_", "r", "e", "p", "l", "a", "c", "e", "m", "e", "n", "t">>],
       [name |-> "hvac_repair", base_cost |-> 800, per_sqft |-> FALSE, complexity_factor |-> 10,
        key |-> <<"h", "v", "a", "c", "_", "r", "e", "p", "a", "i", "r">>],
       [name |-> "hvac_replacement", base_cost |-> 8000, per_sqft |-> FALSE, complexity_factor |-> 13,
        key |-> <<"h", "v", "a", "c", "_", "r", "e", "p", "l", "a", "c", "e", "m", "e", "n", "t">>],
       [name |-> "plumbing_repair", base_cost |-> 400, per_sqft |-> FALSE, complexity_factor |-> 11,
        key |-> <<"p", "l", "u", "m", "b", "i", "n", "g", "_", "r", "e", "p", "a", "i", "r">>],
       [name |-> "electrical_repair", base_cost |-> 600, per_sqft |-> FALSE, complexity_factor |-> 12,
        key |-> <<"e", "l", "e", "c", "t", "r", "i", "c", "a", "l", "_", "r", "e", "p", "a", "i", "r">>],
       [name |-> "flooring_repair", base_cost |-> 8, per_sqft |-> TRUE, complexity_factor |-> 10,
        key |-> <<"f", "l", "o", "o", "r", "i", "n", "g", "_", "r", "e", "p", "a", "i", "r">>],
       [name |-> "flooring_replacement", base_cost |-> 12, per_sqft |-> TRUE, complexity_factor |-> 11,
        key |-> <<"f", "l", "o", "o", "r", "i", "n", "g", "_", "r", "e", "p", "l", "a", "c", "e", "m", "e", "n", "t">>],
       [name |-> "painting_interior", base_cost |-> 3, per_sqft |-> TRUE, complexity_factor |-> 10,
        key |-> <<"p", "a", "i", "n", "t", "i", "n", "g", "_", "i", "n", "t", "e", "r", "i", "o", "r">>],
       [name |-> "painting_exterior", base_cost |-> 2, per_sqft |-> TRUE, complexity_factor |-> 12,
        key |-> <<"p", "a", "i", "n", "t", "i", "n", "g", "_", "e", "x", "t", "e", "r", "i", "o", "r">>],
       [name |-> "window_replacement", base_cost |-> 500, per_sqft |-> FALSE, complexity_factor |-> 10,
        key |-> <<"w", "i", "n", "d", "o", "w", "_", "r", "e", "p", "l", "a", "c", "e", "m", "e", "n", "t">>],
       [name |-> "appliance_repair", base_cost |-> 300, per_sqft |-> FALSE, complexity_factor |-> 10,
        key |-> <<"a", "p", "p", "l", "i", "a", "n", "c", "e", "_", "r", "e", "p", "a", "i", "r">>],
       [name |-> "appliance_replacement", base_cost |-> 1200, per_sqft |-> FALSE, complexity_factor |-> 10,
        key |-> <<"a", "p", "p", "l", "i", "a", "n", "c", "e", "_", "r", "e", "p", "l", "a", "c", "e", "m", "e", "n", "t">>],
       [name |-> "landscaping", base_cost |-> 5, per_sqft |-> TRUE, complexity_factor |-> 10,
        key |-> <<"l", "a", "n", "d", "s", "c", "a", "p", "i", "n", "g">>],
       [name |-> "driveway_repair", base_cost |-> 8, per_sqft |-> TRUE, complexity_factor |-> 11,
        key |-> <<"d", "r", "i", "v", "e", "w", "a", "y", "_", "r", "e", "p", "a", "i", "r">>],
       [name |-> "fence_repair", base_cost |-> 15, per_sqft |-> TRUE, complexity_factor |-> 10,
        key |-> <<"f", "e", "n", "c", "e", "_", "r", "e", "p", "a", "i", "r">>],
       [name |-> "deck_repair", base_cost |-> 20, per_sqft |-> TRUE, complexity_factor |-> 12,
        key |-> <<"d", "e", "c", "k", "_", "r", "e", "p", "a", "i", "r">>],
       [name |-> "basement_waterproofing", base_cost |-> 10, per_sqft |-> TRUE, complexity_factor |-> 15,
        key |-> <<"b", "a", "s", "e", "m", "e", "n", "t", "_", "w", "a", "t", "e", "r", "p", "r", "o", "o", "f", "i", "n", "g">>],
       [name |-> "insulation_upgrade", base_cost |-> 2, per_sqft |-> TRUE, complexity_factor |-> 10,
        key |-> <<"i", "n", "s", "u", "l", "a", "t", "i", "o", "n", "_", "u", "p", "g", "r", "a", "d", "e">>],
       [name |-> "energy_efficiency", base_cost |-> 4, per_sqft |-> TRUE, complexity_factor |-> 11,
        key |-> <<"e", "n", "e", "r", "g", "y", "_", "e", "f", "f", "i", "c", "i", "e", "n", "c", "y">>] >>

\* the entry for items that match no key
DefaultCostData ==
    [name |-> "default", base_cost |-> 500, per_sqft |-> FALSE, complexity_factor |-> 10]

\* location_multipliers, in tenths
LocationMultipliers ==
    [urban |-> 13, suburban |-> 10, rural |-> 8, high_cost_area |-> 15, low_cost_area |-> 7]

\* item.lower().replace(" ", "_")
ItemLower(item) == Replace(Lower(item), " ", "_")

KeyMatchesMut(key, item_lower) ==
    \/ Contains(item_lower, key)
    \/ \A w \in {Split(key, "_")[j] : j \in DOMAIN Split(key, "_")} :
          Contains(item_lower, w)

\* key in item_lower or any(word in item_lower for word in key.split("_"))
KeyMatches(key, item_lower) ==
    \/ Contains(item_lower, key)
    \/ \E j \in DOMAIN Split(key, "_") : Contains(item_lower, Split(key, "_")[j])

\* the loop over cost_database.items() with its break: the first matching
\* entry, the default when the loop ends without one
CostDataFor(item) ==
    LET item_lower == ItemLower(item)
        hits == {k \in DOMAIN CostDatabase : KeyMatches(CostDatabase[k].key, item_lower)}
    IN  IF hits = {} THEN DefaultCostData
        ELSE CostDatabase[CHOOSE k \in hits : \A h \in hits : k <= h]

BaseCostMut(cost_data, property_sqft) == cost_data.base_cost

BaseCost(cost_data, property_sqft) ==
    IF cost_data.per_sqft THEN cost_data.base_cost * property_sqft
    ELSE cost_data.base_cost

\* cost_data["complexity_factor"] * (1.0 + property_age * 0.01), thousandths
ComplexityFactor(cost_data, property_age) ==
    cost_data.complexity_factor * (100 + property_age)

\* np.random.uniform(0.8, 1.2), in fifths
Variance(d) == IF d = "lo" THEN 4 ELSE 6

ReportedCostsMut(base_cost, final_cost) ==
    [base_cost |-> final_cost \div 100, estimated_cost |-> final_cost]

\* round(base_cost, 2) and round(final_cost, 2) as stored in cost_estimate:
\* base_cost in dollars as computed before the multipliers, the final cost
\* in cents
ReportedCosts(base_cost, final_cost) ==
    [base_cost |-> base_cost, estimated_cost |-> final_cost]

LocationMultiplierMut(location) == Get(LocationMultipliers, location, 10)

\* location_multipliers.get("suburban", 1.0): the lookup key is the literal
\* "suburban", not the location argument
LocationMultiplier(location) == Get(LocationMultipliers, "suburban", 10)

\* the estimate of the k-th item; costs in cents, complexity_factor rounded
\* to hundredths, location_multiplier in tenths
CostEstimate(a, k, rng) ==
    LET item == a.maintenance_items[k]
        cost_data == CostDataFor(item)
        base_cost == BaseCost(cost_data, a.property_sqft)
        complexity_factor == ComplexityFactor(cost_data, a.property_age)
        location_multiplier == LocationMultiplier(a.location)
        \* base_cost * complexity_factor * location_multiplier, in cents
        before_variance ==
            RoundHalfEven(RoundHalfEven(base_cost * complexity_factor, 10)
                              * location_multiplier, 10)
        final_cost == RoundHalfEven(before_variance * Variance(Draw(rng, k)), 5)
    IN  [item |-> item,
         matched |-> cost_data.name,
         base_cost |-> ReportedCosts(base_cost, final_cost).base_cost,
         complexity_factor |-> RoundHalfEven(complexity_factor, 10),
         location_multiplier |-> location_multiplier,
         estimated_cost |-> ReportedCosts(base_cost, final_cost).estimated_cost,
         cost_range |-> [low |-> RoundHalfEven(final_cost * 4, 5),
                         high |-> RoundHalfEven(final_cost * 6, 5)]]

\* the priority bucket of an estimate (estimated_cost in cents)
Priority(estimate) ==
    IF estimate.estimated_cost > 500000 THEN "High"
    ELSE IF estimate.estimated_cost > 200000 THEN "Medium"
    ELSE "Low"

PriorityItems(cost_estimates) ==
    [k \in DOMAIN cost_estimates |->
        [item |-> cost_estimates[k].item, priority |-> Priority(cost_estimates[k])]]

WithPriority(priority_items, p) ==
    FilterSeq(priority_items,
              {k \in DOMAIN priority_items : priority_items[k].priority = p})

MaintenanceResult(a, rng) ==
    LET cost_estimates == [k \in DOMAIN a.maintenance_items |-> CostEstimate(a, k, rng)]
        total_estimated_cost ==
            SumSeq([k \in DOMAIN cost_estimates |-> cost_estimates[k].estimated_cost])
        priority_items == PriorityItems(cost_estimates)
    IN  IF Len(a.maintenance_items) = 0 THEN Raise("ZeroDivisionError")
        ELSE [kind |-> "result",
              property_info |-> [sqft |-> a.property_sqft, age_years |-> a.property_age,
                                 location |-> a.location],
              cost_estimates |-> cost_estimates,
              summary |-> [total_estimated_cost |-> total_estimated_cost,
                           number_of_items |-> Len(a.maintenance_items)],
              prioritization |-> [high_priority |-> WithPriority(priority_items, "High"),
                                  medium_priority |-> WithPriority(priority_items, "Medium"),
                                  low_priority |-> WithPriority(priority_items, "Low")]]

\* "roof repair"
ItemRoofRepair ==
    <<"r", "o", "o", "f", " ", "r", "e", "p", "a", "i", "r">>

\* "hvac replacement"
ItemHvacReplacement ==
    <<"h", "v", "a", "c", " ", "r", "e", "p", "l", "a", "c", "e", "m", "e", "n", "t">>

\* "Plumbing Repair"
ItemPlumbingRepair ==
    <<"P", "l", "u", "m", "b", "i", "n", "g", " ", "R", "e", "p", "a", "i", "r">>

\* "landscaping"
ItemLandscaping ==
    <<"l", "a", "n", "d", "s", "c", "a", "p", "i", "n", "g">>

\* "gutter cleaning"
ItemGutterCleaning ==
    <<"g", "u", "t", "t", "e", "r", " ", "c", "l", "e", "a", "n", "i", "n", "g">>

\* "fix deck"
ItemFixDeck ==
    <<"f", "i", "x", " ", "d", "e", "c", "k">>

\* the item strings a caller may pass
MaintenanceItemPool ==
    {ItemRoofRepair, ItemHvacReplacement, ItemPlumbingRepair, ItemLandscaping,
     ItemGutterCleaning, ItemFixDeck}

MaxItems == 2

maintenance_cost_estimator ==
    /\ pc = "idle"
    /\ \E items \in SeqsUpTo(MaintenanceItemPool, MaxItems),
          sqft \in {1500, 2000}, age \in {0, 10},
          location \in {"urban", "rural"}, rng \in RandStreams :
          LET a == [maintenance_items |-> items, property_sqft |-> sqft,
                    property_age |-> age, location |-> location]
          IN  /\ args' = a
              /\ ret' = MaintenanceResult(a, rng)
    /\ tool' = "maintenance_cost_estimator"
    /\ pc' = "done"
    /\ UNCHANGED <<prev, ui>>

(***************************************************************************)
(* market_trend_analyzer                                                   *)
(***************************************************************************)
\* Dates are day numbers in a calendar of 365-day years (leap days are left
\* out): day d is day (d % 365) + 1 of year d \div 365.
DaysBeforeMonth == <<0, 31, 59, 90, 120, 151, 181, 212, 243, 273, 304, 334>>

\* date.month
MonthOf(d) ==
    LET doy == (d % 365) + 1
    IN  CHOOSE m \in 1 .. 12 :
            /\ DaysBeforeMonth[m] < doy
            /\ (m = 12 \/ doy <= DaysBeforeMonth[m + 1])

\* date.strftime("%Y-%m"), as <<year, month>>
YearMonth(d) == <<d \div 365, MonthOf(d)>>

\* seasonal_factors, in hundredths
SeasonalFactors == <<95, 92, 98, 105, 108, 110, 112, 108, 105, 102, 98, 95>>

\* np.random.normal(1.0, 0.02), in hundredths: one sigma below or above
RandomFactor(d) == IF d = "lo" THEN 98 ELSE 102

\* the point appended for loop index i: its month, and the factors of
\* price = base_price * 1.02 ** (i / 12) * seasonal_factor * random_factor
\* (months_back is the loop index the point was generated for)
PricePoint(a, current_date, i, rng) ==
    LET month_date == current_date - 30 * i
    IN  [date |-> YearMonth(month_date),
         months_back |-> i,
         base_price |-> 400000,
         seasonal_factor |-> IF a.include_seasonal
                             THEN SeasonalFactors[MonthOf(month_date)] ELSE 100,
         random_factor |-> RandomFactor(Draw(rng, i))]

\* price_data after the loop: index i + 1 holds the point of loop index i
PriceData(a, current_date, rng) ==
    [k \in 1 .. Max(a.analysis_period, 0) |-> PricePoint(a, current_date, k - 1, rng)]

\* price_data[-12:]
LastTwelve(price_data) ==
    SubSeq(price_data, Max(1, Len(price_data) - 11), Len(price_data))

\* np.polyfit raises on an empty series; otherwise the result carries the
\* slice of the series and the months of seasonal_analysis (the fitted
\* slope, growth, volatility and forecast are real-valued functions of the
\* prices and are not represented)
TrendResult(a, current_date, rng) ==
    LET price_data == PriceData(a, current_date, rng)
    IN  IF price_data = <<>> THEN Raise("TypeError")
        ELSE [kind |-> "result",
              analysis_period |-> a.analysis_period,
              price_data |-> LastTwelve(price_data),
              seasonal_analysis |->
                  IF a.include_seasonal
                  THEN {price_data[k].date[2] : k \in DOMAIN price_data} ELSE {}]

MaxPeriod == 24

\* current dates: mid January, mid July and the last day of a year
CurrentDates == {2026 * 365 + 14, 2026 * 365 + 195, 2026 * 365 + 364}

market_trend_analyzer ==
    /\ pc = "idle"
    /\ \E period \in 0 .. MaxPeriod, seasonal \in BOOLEAN,
          current_date \in CurrentDates, rng \in RandStreams :
          LET a == [analysis_period |-> period, include_seasonal |-> seasonal]
          IN  /\ args' = a
              /\ ret' = TrendResult(a, current_date, rng)
    /\ tool' = "market_trend_analyzer"
    /\ pc' = "done"
    /\ UNCHANGED <<prev, ui>>

(***************************************************************************)
(* market_monitor                                                          *)
(***************************************************************************)
\* monitoring_results: rates in hundredths, counts as they are
MonitoringResults ==
    [economic |->
        [unemployment_rate |-> 380, gdp_growth |-> 210, inflation_rate |-> 250,
         interest_rates |-> 525, consumer_confidence |-> 10850,
         status |-> "Stable", alerts |-> <<>>],
     development |->
        [new_construction_permits |-> 45, commercial_development |-> 3,
         infrastructure_projects |-> 2, zoning_changes |-> 1,
         status |-> "Active",
         alerts |-> << [type |-> "New Development", impact |-> "Positive",
                        date |-> "2024-01-15"] >>],
     regulatory |->
        [property_tax_changes |-> 0, zoning_updates |-> 1,
         building_code_changes |-> 0, environmental_regulations |-> 0,
         status |-> "Stable", alerts |-> <<>>],
     demographic |->
        [population_growth |-> 120, median_income_change |-> 350,
         status |-> "Growing", alerts |-> <<>>]]

RiskPenaltiesMut ==
    << [factor |-> "High unemployment rate",
        penalty |-> IF MonitoringResults.economic.unemployment_rate > 500 THEN 3 ELSE 0],
       [factor |-> "High interest rates",
        penalty |-> IF MonitoringResults.economic.interest_rates > 500 THEN 2 ELSE 0],
       [factor |-> "High construction activity - potential oversupply",
        penalty |-> IF MonitoringResults.development.new_construction_permits > 50
                    THEN 2 ELSE 0],
       [factor |-> "Significant property tax increase",
        penalty |-> IF MonitoringResults.regulatory.property_tax_changes > 5 THEN 3 ELSE 0] >>

\* the four risk tests, in order, each with its penalty in tenths (0 when
\* the test fails)
RiskPenalties ==
    << [factor |-> "High unemployment rate",
        penalty |-> IF MonitoringResults.economic.unemployment_rate > 500 THEN 3 ELSE 0],
       [factor |-> "High interest rates",
        penalty |-> IF MonitoringResults.economic.interest_rates > 600 THEN 2 ELSE 0],
       [factor |-> "High construction activity - potential oversupply",
        penalty |-> IF MonitoringResults.development.new_construction_permits > 50
                    THEN 2 ELSE 0],
       [factor |-> "Significant property tax increase",
        penalty |-> IF MonitoringResults.regulatory.property_tax_changes > 5 THEN 3 ELSE 0] >>

RiskFactors ==
    LET hit == FilterSeq(RiskPenalties,
                         {i \in DOMAIN RiskPenalties : RiskPenalties[i].penalty # 0})
    IN  [i \in DOMAIN hit |-> hit[i].factor]

\* risk_score, in tenths
RiskScore == SumSeq([i \in DOMAIN RiskPenalties |-> RiskPenalties[i].penalty])

OverallRisk(risk_score) ==
    IF risk_score < 3 THEN "Low" ELSE IF risk_score < 6 THEN "Medium" ELSE "High"

\* 100 - risk_score * 100
HealthScore(risk_score) == 100 - risk_score * 10

HealthStatus(health_score) ==
    IF health_score >= 80 THEN "Excellent"
    ELSE IF health_score >= 60 THEN "Good"
    ELSE IF health_score >= 40 THEN "Fair"
    ELSE "Poor"

\* str.title() of the category names
Title == [economic |-> "Economic", development |-> "Development",
          regulatory |-> "Regulatory", demographic |-> "Demographic"]

AlertsOfMut(monitor_type) ==
    IF monitor_type \in DOMAIN MonitoringResults
    THEN LET source == MonitoringResults.development.alerts
         IN  [i \in DOMAIN source |->
                 [category |-> "Development",
                  type |-> source[i].type,
                  impact |-> source[i].impact,
                  date |-> source[i].date,
                  severity |-> IF source[i].impact = "Negative" THEN "High" ELSE "Medium"]]
    ELSE <<>>

\* the alerts one entry of monitor_types adds
AlertsOf(monitor_type) ==
    IF monitor_type \in DOMAIN MonitoringResults
    THEN LET source == MonitoringResults[monitor_type].alerts
         IN  [i \in DOMAIN source |->
                 [category |-> Title[monitor_type],
                  type |-> source[i].type,
                  impact |-> source[i].impact,
                  date |-> source[i].date,
                  severity |-> IF source[i].impact = "Negative" THEN "High" ELSE "Medium"]]
    ELSE <<>>

RECURSIVE MonitorAlerts(_)
\* the alerts loop over monitor_types
MonitorAlerts(monitor_types) ==
    IF monitor_types = <<>> THEN <<>>
    ELSE AlertsOf(Head(monitor_types)) \o MonitorAlerts(Tail(monitor_types))

MarketSignals ==
    [inventory_levels |-> "Low", days_on_market |-> 28, price_reductions |-> 15,
     new_listings |-> 120, pending_sales |-> 95, absorption_rate |-> 79]

MonitorResult(a, clock) ==
    LET requested == {a.monitor_types[i] : i \in DOMAIN a.monitor_types}
        health_score == HealthScore(RiskScore)
    IN  [kind |-> "result",
         location |-> a.location,
         monitoring_date |-> clock,
         monitored_categories |-> a.monitor_types,
         monitoring_results |->
             [k \in DOMAIN MonitoringResults \cap requested |-> MonitoringResults[k]],
         risk_assessment |-> [risk_score |-> RiskScore,
                              risk_factors |-> RiskFactors,
                              overall_risk |-> OverallRisk(RiskScore)],
         market_signals |-> MarketSignals,
         alerts |-> MonitorAlerts(a.monitor_types),
         market_health |-> [score |-> health_score,
                            status |-> HealthStatus(health_score),
                            recommendation |-> IF health_score < 60 THEN "Monitor closely"
                                               ELSE "Continue monitoring"]]

\* the category names a caller may pass ("weather" is not a category)
MonitorTypePool == {"economic", "development", "regulatory", "demographic", "weather"}

MaxTypes == 3

\* readings of the wall clock
Clocks == {1, 2}

\* what a call of market_monitor may produce for given arguments
MonitorCall(a) == {MonitorResult(a, clock) : clock \in Clocks}

market_monitor ==
    /\ pc = "idle"
    /\ \E location \in {"Austin", "Boise"},
          monitor_types \in SeqsUpTo(MonitorTypePool, MaxTypes),
          alert_threshold \in {5, 50} :
          LET a == [location |-> location, monitor_types |-> monitor_types,
                    alert_threshold |-> alert_threshold]
          IN  /\ args' = a
              /\ ret' \in MonitorCall(a)
    /\ tool' = "market_monitor"
    /\ pc' = "done"
    /\ UNCHANGED <<prev, ui>>

(***************************************************************************)
(* inspection_report_analyzer                                              *)
(***************************************************************************)
Severities == <<"Minor", "Moderate", "Major">>

\* inspection_categories, in the order of the dict
InspectionCategories ==
    << [category |-> "structural",
        issues |-> <<"Foundation cracks", "Settlement", "Structural damage">>,
        severity |-> Severities],
       [category |-> "electrical",
        issues |-> <<"Outdated wiring", "GFCI issues", "Panel problems">>,
        severity |-> Severities],
       [category |-> "plumbing",
        issues |-> <<"Leaks", "Water pressure", "Drainage problems">>,
        severity |-> Severities],
       [category |-> "hvac",
        issues |-> <<"System age", "Efficiency", "Ductwork">>,
        severity |-> Severities],
       [category |-> "roofing",
        issues |-> <<"Shingle condition", "Flashing", "Gutters">>,
        severity |-> Severities],
       [category |-> "exterior",
        issues |-> <<"Siding", "Windows", "Paint condition">>,
        severity |-> Severities],
       [category |-> "interior",
        issues |-> <<"Flooring", "Walls", "Ceilings">>,
        severity |-> Severities] >>

\* The generator of one call: a cycle of three draws, each landing at the
\* low end, the middle or the high end of its range.
InspectionStreams == [1 .. 3 -> {"lo", "mid", "hi"}]

\* the draw after k draws have been consumed
DrawAt(stream, k) == stream[(k % 3) + 1]

NumIssuesMut(d) == RandInt(0, 4, d)

\* num_issues = np.random.randint(0, 3)
NumIssues(d) == RandInt(0, 3, d)

SeverityCostMut(severity, d) ==
    IF severity = "Minor" THEN RandInt(100, 1000, d)
    ELSE IF severity = "Moderate" THEN RandInt(1000, 5001, d)
    ELSE RandInt(5000, 20000, d)

\* the cost band of a severity
SeverityCost(severity, d) ==
    IF severity = "Minor" THEN RandInt(100, 1000, d)
    ELSE IF severity = "Moderate" THEN RandInt(1000, 5000, d)
    ELSE RandInt(5000, 20000, d)

\* one pass of the inner loop, which consumes three draws; the
\* recommendation stands for f"Address {issue.lower()} in {category} system"
Finding(config, k, stream) ==
    LET issue == Choice(config.issues, DrawAt(stream, k))
        severity == Choice(config.severity, DrawAt(stream, k + 1))
    IN  [category |-> config.category,
         issue |-> issue,
         severity |-> severity,
         estimated_cost |-> SeverityCost(severity, DrawAt(stream, k + 2)),
         recommendation |-> <<"Address", issue, "in", config.category, "system">>]

RECURSIVE CategoryFindings(_, _, _, _)
\* for _ in range(num_issues), starting after k draws
CategoryFindings(config, num_issues, k, stream) ==
    IF num_issues <= 0 THEN <<>>
    ELSE <<Finding(config, k, stream)>>
            \o CategoryFindings(config, num_issues - 1, k + 3, stream)

RECURSIVE Findings(_, _, _)
\* the outer loop from category c on, after k draws
Findings(c, k, stream) ==
    IF c > Len(InspectionCategories) THEN <<>>
    ELSE LET num_issues == NumIssues(DrawAt(stream, k))
         IN  CategoryFindings(InspectionCategories[c], num_issues, k + 1, stream)
                \o Findings(c + 1, k + 1 + 3 * Max(num_issues, 0), stream)

\* the findings of the given severities, in order
WithSeverity(findings, severities) ==
    FilterSeq(findings, {i \in DOMAIN findings : findings[i].severity \in severities})

\* immediate_actions
ImmediateActions(critical_issues, total_estimated_cost, findings) ==
    (IF critical_issues > 0 THEN <<"Address critical issues before closing">> ELSE <<>>)
    \o (IF total_estimated_cost > 10000
        THEN <<"Consider negotiating repair credits">> ELSE <<>>)
    \o (IF Len(findings) > 10
        THEN <<"Property may need significant maintenance">> ELSE <<>>)

InspectionRisk(critical_issues, total_estimated_cost) ==
    [overall_risk |-> IF critical_issues > 2 THEN "High"
                      ELSE IF critical_issues > 0 THEN "Medium" ELSE "Low",
     cost_impact |-> IF total_estimated_cost > 15000 THEN "Significant"
                     ELSE IF total_estimated_cost > 5000 THEN "Moderate" ELSE "Minimal",
     timeline_impact |-> IF critical_issues > 1 THEN "Delayed closing recommended"
                         ELSE "Normal timeline"]

\* the returned mapping; average_cost_per_issue in cents (a tie of the
\* rounding needs a divisor of 8, whose quotients are exact in binary)
InspectionResult(a, stream, clock) ==
    LET findings == Findings(1, 0, stream)
        total_issues == Len(findings)
        major == WithSeverity(findings, {"Major"})
        \* the counter of the else branch of the cost bands
        critical_issues == Len(findings) - Len(WithSeverity(findings, {"Minor", "Moderate"}))
        total_estimated_cost ==
            SumSeq([i \in DOMAIN findings |-> findings[i].estimated_cost])
        upkeep == WithSeverity(findings, {"Minor", "Moderate"})
    IN  [kind |-> "result",
         inspection_info |-> [property_address |-> a.property_address,
                              inspection_date |-> a.inspection_date,
                              inspector_company |-> a.inspector_company,
                              analysis_date |-> clock],
         findings_summary |->
             [total_issues |-> total_issues,
              critical_issues |-> critical_issues,
              severity_breakdown |->
                  [Minor |-> Len(WithSeverity(findings, {"Minor"})),
                   Moderate |-> Len(WithSeverity(findings, {"Moderate"})),
                   Major |-> Len(major)],
              total_estimated_cost |-> total_estimated_cost,
              average_cost_per_issue |->
                  RoundHalfEven(total_estimated_cost * 100, Max(total_issues, 1))],
         detailed_findings |-> findings,
         recommendations |->
             [immediate_actions |->
                  ImmediateActions(critical_issues, total_estimated_cost, findings),
              negotiation_points |-> [i \in DOMAIN major |-> major[i].issue],
              maintenance_plan |-> [i \in DOMAIN upkeep |-> upkeep[i].recommendation]],
         risk_assessment |-> InspectionRisk(critical_issues, total_estimated_cost)]

\* what a call of inspection_report_analyzer may produce for given arguments
InspectionCall(a) ==
    {InspectionResult(a, stream, clock) : stream \in InspectionStreams, clock \in Clocks}

\* the report texts a caller may pass
InspectionReportPool ==
    {"", "No defects were found.", "Major foundation cracks; roof leaks in three places."}

inspection_report_analyzer ==
    /\ pc = "idle"
    /\ \E inspection_report \in InspectionReportPool,
          inspector_company \in {None, Some("Acme Inspections")} :
          LET a == [inspection_report |-> inspection_report,
                    property_address |-> "123 Main St",
                    inspection_date |-> "2026-01-15",
                    inspector_company |-> inspector_company]
          IN  /\ args' = a
              /\ ret' \in InspectionCall(a)
    /\ tool' = "inspection_report_analyzer"
    /\ pc' = "done"
    /\ UNCHANGED <<prev, ui>>

(***************************************************************************)
(* The submit handler of src/modules/main.py                               *)
(***************************************************************************)
\* ui holds what one run of the page has done: the widgets it has shown
\* below the form, in order, and the agents whose run method it has called
BlankPage == [screen |-> <<>>, calls |-> <<>>]

\* the options of the selectbox
AgentChoices ==
    {"Market Analyzer", "Value Estimator", "Trend Tracker",
     "Property Condition Assessor", "Property Valuation Team"}

\* call_agent: the agent or team whose run method is called
CallAgent(choice) ==
    IF choice = "Market Analyzer" THEN "MarketAnalyzerAgent"
    ELSE IF choice = "Value Estimator" THEN "ValueEstimatorAgent"
    ELSE IF choice = "Trend Tracker" THEN "TrendTrackerAgent"
    ELSE IF choice = "Property Condition Assessor" THEN "PropertyConditionAssessorAgent"
    ELSE "PropertyValuationTeam"

Whitespace == {" ", "\t", "\n"}

RECURSIVE LStrip(_)
LStrip(text) ==
    IF text # <<>> /\ Head(text) \in Whitespace THEN LStrip(Tail(text)) ELSE text

RECURSIVE RStrip(_)
RStrip(text) ==
    IF text # <<>> /\ text[Len(text)] \in Whitespace
    THEN RStrip(SubSeq(text, 1, Len(text) - 1)) ELSE text

\* str.strip() on a text given as a sequence of characters
Strip(text) == RStrip(LStrip(text))

NoInputMut(user_input) == user_input = <<>>

\* not user_input.strip()
NoInput(user_input) == Strip(user_input) = <<>>

\* the texts a user may submit: "", "  \n", " hi " and "value?"
UserInputs ==
    { <<>>, <<" ", " ", "\n">>, <<" ", "h", "i", " ">>,
      <<"v", "a", "l", "u", "e", "?">> }

\* The values run may hand back, by the branch of render_response that
\* takes them: a dict or list, a string, an iterable of chunks, an iterable
\* without chunks, an object with model_dump() or dict(), and an object that
\* has only __dict__ (calling it raises TypeError, which render_response
\* swallows).  run may also raise.
Responses == {"dict", "str", "chunks", "empty", "model", "object"}

\* the widgets render_response shows for a response, when none of them fails
RenderResponse(resp) ==
    CASE resp = "dict" -> <<"json">>
      [] resp = "str" -> <<"write">>
      [] resp = "chunks" -> <<"write", "write">>
      [] resp = "empty" -> <<"write">>
      [] resp = "model" -> <<"json">>
      [] resp = "object" -> <<"write">>

\* st.button("Analyser") is pressed: the page reruns with the selection and
\* the text of the form
Analyser ==
    /\ pc = "idle"
    /\ \E agent_choice \in AgentChoices, user_input \in UserInputs :
          args' = [agent_choice |-> agent_choice, user_input |-> user_input]
    /\ pc' = "submitted"
    /\ tool' = "main"
    /\ ui' = BlankPage
    /\ UNCHANGED <<ret, prev>>

\* the branch for a text without content: st.warning and nothing else
Warn ==
    /\ pc = "submitted"
    /\ NoInput(args.user_input)
    /\ ui' = [ui EXCEPT !.screen = Append(@, "warning")]
    /\ pc' = "done"
    /\ UNCHANGED <<tool, args, ret, prev>>

\* st.info, then call_agent inside the try: run returns a value or raises
Call ==
    /\ pc = "submitted"
    /\ ~NoInput(args.user_input)
    /\ ui' = [screen |-> Append(ui.screen, "info"),
              calls |-> Append(ui.calls, CallAgent(args.agent_choice))]
    /\ \/ \E resp \in Responses : ret' = [kind |-> "response", response |-> resp]
       \/ ret' = Raise("Exception")
    /\ pc' = "called"
    /\ UNCHANGED <<tool, args, prev>>

\* render_response inside the try: the first n widgets are shown; when one
\* remains and raises, the except clause shows st.error
Render ==
    /\ pc = "called"
    /\ ret.kind = "response"
    /\ LET widgets == RenderResponse(ret.response)
       IN  \E n \in 0 .. Len(widgets) :
              ui' = [ui EXCEPT !.screen =
                        IF n = Len(widgets) THEN @ \o widgets
                        ELSE @ \o SubSeq(widgets, 1, n) \o <<"error">>]
    /\ pc' = "done"
    /\ UNCHANGED <<tool, args, ret, prev>>

\* except Exception as e: st.error, for an exception of the call
ShowError ==
    /\ pc = "called"
    /\ ret.kind = "raise"
    /\ ui' = [ui EXCEPT !.screen = Append(@, "error")]
    /\ pc' = "done"
    /\ UNCHANGED <<tool, args, ret, prev>>

(***************************************************************************)
(* The calling runtime                                                     *)
(***************************************************************************)
\* the runtime takes the returned value (or the exception) and is ready for
\* the next tool call
Return ==
    /\ pc = "done"
    /\ pc' = "idle"
    /\ tool' = "none"
    /\ args' = <<>>
    /\ ret' = <<>>
    /\ prev' = <<>>
    /\ ui' = BlankPage

\* the runtime repeats the call it has just made, with identical arguments;
\* the first call and its value are kept in prev
market_monitor_again ==
    /\ pc = "done"
    /\ tool = "market_monitor"
    /\ prev = <<>>
    /\ prev' = [args |-> args, ret |-> ret]
    /\ ret' \in MonitorCall(args)
    /\ UNCHANGED <<pc, tool, args, ui>>

maintenance_cost_estimator_again ==
    /\ pc = "done"
    /\ tool = "maintenance_cost_estimator"
    /\ prev = <<>>
    /\ prev' = [args |-> args, ret |-> ret]
    /\ \E rng \in RandStreams : ret' = MaintenanceResult(args, rng)
    /\ UNCHANGED <<pc, tool, args, ui>>

\* the runtime repeats the estimate it has just made for another location,
\* every other argument unchanged
maintenance_cost_estimator_elsewhere ==
    /\ pc = "done"
    /\ tool = "maintenance_cost_estimator"
    /\ prev = <<>>
    /\ prev' = [args |-> args, ret |-> ret]
    /\ \E location \in {"urban", "rural", "suburban", "downtown"} \ {args.location},
          rng \in RandStreams :
          /\ args' = [args EXCEPT !.location = location]
          /\ ret' = MaintenanceResult(args', rng)
    /\ UNCHANGED <<pc, tool, ui>>

Init ==
    /\ pc = "idle"
    /\ tool = "none"
    /\ args = <<>>
    /\ ret = <<>>
    /\ prev = <<>>
    /\ ui = BlankPage

Next ==
    \/ mls_integration
    \/ avm_engine
    \/ market_trend_analyzer
    \/ market_monitor
    \/ comps_analyzer
    \/ property_condition_assessor
    \/ maintenance_cost_estimator
    \/ inspection_report_analyzer
    \/ Return

Spec == Init /\ [][Next]_vars

\* the runs in which market_monitor and maintenance_cost_estimator are
\* called, possibly twice in a row with identical arguments or with
\* another location
NextRepeat ==
    \/ market_monitor
    \/ maintenance_cost_estimator
    \/ market_monitor_again
    \/ maintenance_cost_estimator_again
    \/ maintenance_cost_estimator_elsewhere
    \/ Return

SpecRepeat == Init /\ [][NextRepeat]_vars

\* the runs of the page: each press of the button is handled to its end
\* before the next
NextUi ==
    \/ Analyser
    \/ Warn
    \/ Call
    \/ Render
    \/ ShowError
    \/ Return

\* the script runs on: a handler that can take a step takes it
SpecUi == Init /\ [][NextUi]_vars /\ WF_vars(NextUi)

(***************************************************************************)
(* Claims                                                                  *)
(***************************************************************************)
MlsDone == pc = "done" /\ tool = "mls_integration"

\* C1: every comp returned by mls_integration satisfies every supplied
\* bound (a bound of 0 counts as supplied), whatever the four bounds are.
C1_AllSuppliedBoundsHold ==
    MlsDone =>
        \A i \in DOMAIN ret.comparable_sales :
            LET comp == ret.comparable_sales[i]
            IN  /\ args.min_sqft # None => comp.sqft >= args.min_sqft[1]
                /\ args.max_sqft # None => comp.sqft <= args.max_sqft[1]
                /\ args.min_bedrooms # None => comp.bedrooms >= args.min_bedrooms[1]
                /\ args.max_bedrooms # None => comp.bedrooms <= args.max_bedrooms[1]

AvmDone == pc = "done" /\ tool = "avm_engine"

AvmValued == AvmDone /\ ret.kind = "valuation"

\* C2 (as claimed): whenever avm_engine returns a valuation, its confidence
\* score is one of 0, 0.2, 0.3, 0.5, 0.7, 0.9, 1.0 (in tenths).
C2_OnlySevenValues ==
    AvmValued => ret.final_valuation.confidence_score \in {0, 2, 3, 5, 7, 9, 10}

\* C2 (amended): whenever avm_engine returns a valuation, its confidence
\* score is the exact sum of the triggered bonuses (each 0.2 or 0.3, at most
\* two of each), never clamped or re-normalized, so its only values are
\* 0, 0.2, 0.3, 0.4, 0.5, 0.6, 0.7, 0.8 and 1.0.
C2_ExactSumOfBonuses ==
    AvmValued =>
        LET f == ret.final_valuation.confidence_factors
            score == ret.final_valuation.confidence_score
        IN  /\ score = SumSeq(f)
            /\ \A i \in DOMAIN f : f[i] \in {2, 3}
            /\ Cardinality({i \in DOMAIN f : f[i] = 2}) <= 2
            /\ Cardinality({i \in DOMAIN f : f[i] = 3}) <= 2
            /\ score \in {0, 2, 3, 4, 5, 6, 7, 8, 10}

\* a valuation whose only bonuses are recency and the bedroom match: 0.4
C2_Witness ==
    /\ AvmValued
    /\ ret.final_valuation.confidence_factors = <<2, 2>>
    /\ ret.final_valuation.confidence_score = 4

\* the defective shapes of claim C5
AvmDefective(a) ==
    \/ \E i \in DOMAIN a.comparable_sales :
          LET comp == a.comparable_sales[i]
          IN  \/ "sqft" \notin DOMAIN comp
              \/ "bedrooms" \notin DOMAIN comp
              \/ /\ "sale_date" \in DOMAIN comp
                 /\ comp.sale_date.type # "str"
    \/ a.property_sqft = 0

\* C5: for every input with a defective shape or a degenerate value,
\* avm_engine returns a mapping with an "error" key and never raises.
C5_DefectiveInputGivesErrorPayload ==
    AvmDone /\ AvmDefective(args) => ret.kind = "error"

\* no comp supplies a non-zero price_per_sqft or both a non-zero sale_price
\* and a non-zero sqft
AvmNoPriceFigure(a) ==
    \A i \in DOMAIN a.comparable_sales :
        LET comp == a.comparable_sales[i]
        IN  /\ ~("price_per_sqft" \in DOMAIN comp /\ comp.price_per_sqft # 0)
            /\ ~(/\ "sale_price" \in DOMAIN comp /\ comp.sale_price # 0
                 /\ "sqft" \in DOMAIN comp /\ comp.sqft # 0)

\* C6: avm_engine returns an error payload when the comp list is empty and
\* when no comp supplies a price figure; every other well-formed call (no
\* defective shape) returns a valuation with a final_valuation.
C6_ErrorExactlyWithoutPriceData ==
    AvmDone =>
        /\ (args.comparable_sales = <<>> \/ AvmNoPriceFigure(args))
              => (ret.kind = "error" /\ "final_valuation" \notin DOMAIN ret)
        /\ (/\ args.comparable_sales # <<>>
            /\ ~AvmNoPriceFigure(args)
            /\ ~AvmDefective(args))
              => (ret.kind = "valuation" /\ "final_valuation" \in DOMAIN ret)

\* a valuation returned although one comp supplies no price figure and only
\* another one's is derived from sale_price / sqft
C6_Witness ==
    /\ AvmValued
    /\ \E i \in DOMAIN args.comparable_sales :
          PricePerSqftOf(args.comparable_sales[i]) = <<>>
    /\ \A i \in DOMAIN args.comparable_sales :
          Get(args.comparable_sales[i], "price_per_sqft", 0) = 0

ConditionDone == pc = "done" /\ tool = "property_condition_assessor"

\* C7: for every property_age, however large, none of the 8 system scores
\* computed by property_condition_assessor is below 0.
C7_SystemScoreNeverNegative ==
    ConditionDone =>
        \A s \in DOMAIN ret.system_scores : ret.system_scores[s] >= 0

\* an age at which every system's penalty has reached its cap of 50
C7_Witness ==
    /\ ConditionDone
    /\ \A s \in DOMAIN Systems : args.property_age * Systems[s].age_factor > 500
    /\ ret.system_scores["appliances"] = 250

\* C8: for every integer property_age, each of the 8 system scores and the
\* overall condition score lie in 0..100 (0..1000 tenths).
C8_ScoresWithinZeroToHundred ==
    ConditionDone =>
        /\ \A s \in DOMAIN ret.system_scores :
              ret.system_scores[s] >= 0 /\ ret.system_scores[s] <= 1000
        /\ ret.overall_condition >= 0 /\ ret.overall_condition <= 1000

MaintenanceDone == pc = "done" /\ tool = "maintenance_cost_estimator"

MaintenanceReturned == MaintenanceDone /\ ret.kind = "result"

\* the key the claim selects: the first in table order that is a substring
\* of the normalized item or whose underscore-split tokens each occur in it
ClaimedKeyFits(key, item_lower) ==
    \/ Contains(item_lower, key)
    \/ \A j \in DOMAIN Split(key, "_") : Contains(item_lower, Split(key, "_")[j])

ClaimedEntryName(item) ==
    LET item_lower == ItemLower(item)
        fits == {k \in DOMAIN CostDatabase : ClaimedKeyFits(CostDatabase[k].key, item_lower)}
    IN  IF fits = {} THEN "default"
        ELSE CostDatabase[CHOOSE k \in fits : \A h \in fits : k <= h].name

\* C3: every item is costed with the entry of the first table key that is a
\* substring of the normalized item or whose tokens each occur in it, and
\* with the flat default when there is no such key; an item whose normalized
\* text equals a key gets that key's entry.
C3_FirstFullyMatchingKeyIsUsed ==
    MaintenanceReturned =>
        \A k \in DOMAIN ret.cost_estimates :
            LET e == ret.cost_estimates[k]
            IN  /\ e.matched = ClaimedEntryName(e.item)
                /\ \A c \in DOMAIN CostDatabase :
                      ItemLower(e.item) = CostDatabase[c].key
                          => e.matched = CostDatabase[c].name

\* the table entry (or the default) with the given name
EntryNamed(name) ==
    IF name = "default" THEN DefaultCostData
    ELSE CostDatabase[CHOOSE c \in DOMAIN CostDatabase : CostDatabase[c].name = name]

\* C10: the reported base_cost of an item is its matched entry's base cost
\* times property_sqft when the entry is per-sqft and the entry's base cost
\* alone otherwise, whatever the age, location and random variance; "roof
\* repair" at 2000 sqft matches roof_repair and has base_cost 600000.
C10_BaseCostFromMatchedEntry ==
    MaintenanceReturned =>
        \A k \in DOMAIN ret.cost_estimates :
            LET e == ret.cost_estimates[k]
                entry == EntryNamed(e.matched)
            IN  /\ entry.per_sqft => e.base_cost = entry.base_cost * args.property_sqft
                /\ ~entry.per_sqft => e.base_cost = entry.base_cost
                /\ (e.item = ItemRoofRepair /\ args.property_sqft = 2000)
                      => (e.matched = "roof_repair" /\ e.base_cost = 600000)

\* "roof repair" costed on a 2000 sqft house of age 10, next to an item
\* whose entry is not per-sqft
C10_Witness ==
    /\ MaintenanceReturned
    /\ args.property_sqft = 2000 /\ args.property_age = 10
    /\ \E k \in DOMAIN ret.cost_estimates :
          /\ ret.cost_estimates[k].item = ItemRoofRepair
          /\ ret.cost_estimates[k].base_cost = 600000
          /\ ret.cost_estimates[k].estimated_cost # 60000000
    /\ \E k \in DOMAIN ret.cost_estimates : ret.cost_estimates[k].base_cost = 500

CompsDone == pc = "done" /\ tool = "comps_analyzer"

CompsReturned == CompsDone /\ ret.kind = "result"

\* the sqft factor of the claim: 150 when no custom factors are supplied,
\* else the custom sqft factor (150 when the custom factors name none)
ClaimedSqftFactor(a) ==
    IF a.adjustment_factors = <<>> THEN 150
    ELSE IF "sqft" \in DOMAIN a.adjustment_factors THEN a.adjustment_factors.sqft
    ELSE 150

\* C9: whenever subject and comp both carry sqft, the comp's recorded sqft
\* adjustment is (subject sqft - comp sqft) * sqft factor (in cents), 150
\* being the factor without custom factors (2200 against 2000 gives
\* +30000), and total_adjustment counts it together with the comp's other
\* recorded adjustments.
C9_SqftAdjustment ==
    CompsReturned =>
        \A k \in DOMAIN ret.analyzed_comparables :
            LET ac == ret.analyzed_comparables[k]
                comp == args.comparable_sales[k]
                subject == args.subject_property
                others == [f \in DOMAIN ac.adjustments \ {"sqft"} |-> ac.adjustments[f]]
            IN  ("sqft" \in DOMAIN subject /\ "sqft" \in DOMAIN comp) =>
                    /\ "sqft" \in DOMAIN ac.adjustments
                    /\ ac.adjustments.sqft =
                          (subject.sqft - comp.sqft) * ClaimedSqftFactor(args) * 100
                    /\ (subject.sqft = 2200 /\ comp.sqft = 2000
                        /\ args.adjustment_factors = <<>>)
                          => ac.adjustments.sqft = 30000 * 100
                    /\ ac.total_adjustment = ac.adjustments.sqft + SumValues(others)

\* subject 2200 sqft against a comp of 2000 sqft with the default factors:
\* +30000 recorded next to other adjustments
C9_Witness ==
    /\ CompsReturned
    /\ args.adjustment_factors = <<>>
    /\ \E k \in DOMAIN ret.analyzed_comparables :
          /\ Get(args.subject_property, "sqft", 0) = 2200
          /\ Get(args.comparable_sales[k], "sqft", 0) = 2000
          /\ ret.analyzed_comparables[k].adjustments.sqft = 3000000
          /\ ret.analyzed_comparables[k].total_adjustment # 3000000

TrendDone == pc = "done" /\ tool = "market_trend_analyzer"

\* C4: when analysis_period is larger than 12, the returned price_data holds
\* exactly the 12 most recent points of the series, those generated for
\* month offsets 0..11 back from the current date, and no older point.
C4_MostRecentTwelveReturned ==
    (TrendDone /\ ret.kind = "result" /\ args.analysis_period > 12) =>
        /\ Len(ret.price_data) = 12
        /\ {ret.price_data[k].months_back : k \in DOMAIN ret.price_data} = 0 .. 11

Repeated == pc = "done" /\ prev # <<>> /\ prev.args = args

\* C11: two calls of market_monitor with identical inputs return identical
\* risk_assessment, market_signals, alerts, market_health and
\* monitoring_results; two calls of maintenance_cost_estimator with
\* identical inputs return, item by item, identical base_cost,
\* complexity_factor and location_multiplier.
C11_DeterministicFieldsRepeat ==
    /\ (Repeated /\ tool = "market_monitor") =>
          /\ ret.risk_assessment = prev.ret.risk_assessment
          /\ ret.market_signals = prev.ret.market_signals
          /\ ret.alerts = prev.ret.alerts
          /\ ret.market_health = prev.ret.market_health
          /\ ret.monitoring_results = prev.ret.monitoring_results
    /\ (Repeated /\ tool = "maintenance_cost_estimator" /\ ret.kind = "result") =>
          /\ prev.ret.kind = "result"
          /\ Len(ret.cost_estimates) = Len(prev.ret.cost_estimates)
          /\ \A k \in DOMAIN ret.cost_estimates :
                /\ ret.cost_estimates[k].item = prev.ret.cost_estimates[k].item
                /\ ret.cost_estimates[k].base_cost = prev.ret.cost_estimates[k].base_cost
                /\ ret.cost_estimates[k].complexity_factor
                      = prev.ret.cost_estimates[k].complexity_factor
                /\ ret.cost_estimates[k].location_multiplier
                      = prev.ret.cost_estimates[k].location_multiplier

\* a repeated estimate of two items whose random cost differs between the
\* two calls
C11_Witness ==
    /\ Repeated
    /\ tool = "maintenance_cost_estimator"
    /\ ret.kind = "result"
    /\ Len(ret.cost_estimates) = 2
    /\ ret.cost_estimates[1].estimated_cost # prev.ret.cost_estimates[1].estimated_cost

\* C12: when the filters exclude every comp, mls_integration does not fail
\* and returns an empty comparable_sales list with total_comparables = 0,
\* both averages 0 and price_range min = max = median = 0.
C12_EmptyFilterGivesZeroStatistics ==
    (MlsDone /\ \A i \in DOMAIN MlsComparableSales : MlsDropped(MlsComparableSales[i], args))
        => /\ ret.kind = "result"
           /\ ret.comparable_sales = <<>>
           /\ ret.total_comparables = 0
           /\ ret.average_price_per_sqft = 0
           /\ ret.average_days_on_market = 0
           /\ ret.price_range = [min |-> 0, max |-> 0, median |-> 0]

\* a minimum of 2500 sqft, above every comp
C12_Witness ==
    /\ MlsDone
    /\ args.min_sqft = Some(2500)
    /\ ret.comparable_sales = <<>>
    /\ ret.total_comparables = 0

Relocated ==
    /\ pc = "done"
    /\ tool = "maintenance_cost_estimator"
    /\ prev # <<>>
    /\ prev.args.location # args.location
    /\ prev.args = [args EXCEPT !.location = prev.args.location]

\* C13: for two calls of maintenance_cost_estimator that differ only in the
\* location argument, every item's location_multiplier is 1.0 in both, and
\* base_cost, complexity_factor and location_multiplier agree item by item;
\* the location only appears echoed in property_info.
C13_LocationNeverChangesCosts ==
    (Relocated /\ ret.kind = "result") =>
        /\ prev.ret.kind = "result"
        /\ ret.property_info.location = args.location
        /\ prev.ret.property_info.location = prev.args.location
        /\ [ret EXCEPT !.property_info.location = prev.args.location,
                       !.cost_estimates = <<>>, !.summary = <<>>, !.prioritization = <<>>]
              = [prev.ret EXCEPT !.cost_estimates = <<>>, !.summary = <<>>,
                                 !.prioritization = <<>>]
        /\ Len(ret.cost_estimates) = Len(prev.ret.cost_estimates)
        /\ \A k \in DOMAIN ret.cost_estimates :
              LET now == ret.cost_estimates[k]
                  before == prev.ret.cost_estimates[k]
              IN  /\ now.location_multiplier = 10
                  /\ before.location_multiplier = 10
                  /\ now.item = before.item
                  /\ now.base_cost = before.base_cost
                  /\ now.complexity_factor = before.complexity_factor

\* the same two items estimated for "urban" and then for "rural"
C13_Witness ==
    /\ Relocated
    /\ ret.kind = "result"
    /\ prev.args.location = "urban"
    /\ args.location = "rural"
    /\ Len(ret.cost_estimates) = 2
    /\ ret.cost_estimates[1].location_multiplier = 10

InspectionDone == pc = "done" /\ tool = "inspection_report_analyzer"

\* C14: the set of possible results of inspection_report_analyzer is the
\* same for every report text; each of the 7 categories has 0, 1 or 2
\* findings, and each finding's issue and severity come from the fixed lists
\* of its category.
C14_ReportTextIsIgnored ==
    InspectionDone =>
        /\ \A text \in InspectionReportPool :
              InspectionCall([args EXCEPT !.inspection_report = text])
                  = InspectionCall(args)
        /\ \A c \in DOMAIN InspectionCategories :
              Cardinality({i \in DOMAIN ret.detailed_findings :
                              ret.detailed_findings[i].category
                                  = InspectionCategories[c].category}) \in 0 .. 2
        /\ \A i \in DOMAIN ret.detailed_findings :
              \E c \in DOMAIN InspectionCategories :
                 LET config == InspectionCategories[c]
                     finding == ret.detailed_findings[i]
                 IN  /\ finding.category = config.category
                     /\ \E j \in DOMAIN config.issues : finding.issue = config.issues[j]
                     /\ \E j \in DOMAIN config.severity :
                           finding.severity = config.severity[j]

\* a report that speaks of major defects is analysed with no structural
\* finding, one electrical finding and two plumbing findings
C14_Witness ==
    /\ InspectionDone
    /\ args.inspection_report = "Major foundation cracks; roof leaks in three places."
    /\ \E n \in DOMAIN ret.detailed_findings :
          /\ ret.detailed_findings[1].category = "electrical"
          /\ ret.detailed_findings[2].category = "plumbing"
          /\ ret.detailed_findings[3].category = "plumbing"
          /\ n >= 3

\* the four bonuses as claim C15 states them, in tenths, 0 when not awarded
ClaimedBonuses(a) ==
    LET comps == a.comparable_sales
        days == DaysSinceSale(CompDates(comps))
    IN  << IF Len(comps) >= 3 THEN 3 ELSE 0,
           IF SumSeq(days) < 180 * Len(days) THEN 2 ELSE 0,
           IF Cardinality({i \in DOMAIN comps :
                   5 * Abs(comps[i].sqft - a.property_sqft) < a.property_sqft}) >= 2
           THEN 3 ELSE 0,
           IF \E i \in DOMAIN comps : comps[i].bedrooms = a.bedrooms THEN 2 ELSE 0 >>

\* C15: whenever avm_engine returns a valuation, each confidence bonus is
\* present exactly when its condition holds: 0.3 for at least 3 comps, 0.2
\* for an average of fewer than 180 days since sale (an average of 0 days
\* included), 0.3 for at least 2 comps within 20% of the subject's sqft, 0.2
\* for at least 1 comp with the subject's bedroom count.
C15_BonusExactlyWhenConditionHolds ==
    AvmValued =>
        LET claimed == ClaimedBonuses(args)
        IN  ret.final_valuation.confidence_factors
                = FilterSeq(claimed, {i \in DOMAIN claimed : claimed[i] # 0})

\* the adjusted price of the i-th comp, in cents, as the fraction
\* <<numerator, per_sqft[2]>>: the sale price plus the differences weighted
\* with 5000 per bedroom, 10000 per bathroom, 20000 per acre, -500 per year
\* of age and the given weight per sqft (a fraction)
ClaimedAdjustedPrice(a, i, per_sqft) ==
    LET comp == a.comparable_sales[i]
        dollars ==
            Get(comp, "sale_price", 0)
            + 5000 * (a.bedrooms - Get(comp, "bedrooms", 0))
            + 5000 * (a.bathrooms - Get(comp, "bathrooms", 0))
            + 200 * (a.lot_size - Get(comp, "lot_size", 0))
            - 500 * ((CurrentYear - a.year_built)
                        - (CurrentYear - Get(comp, "year_built", CurrentYear)))
    IN  << 100 * (dollars * per_sqft[2]
                    + (a.property_sqft - Get(comp, "sqft", 0)) * per_sqft[1]),
           per_sqft[2] >>

\* adjusted_prices and value are the claimed prices and their mean, to the
\* cent
AdjustedWith(per_sqft) ==
    LET n == Len(args.comparable_sales)
        claimed == [i \in 1 .. n |-> ClaimedAdjustedPrice(args, i, per_sqft)]
    IN  /\ Len(ret.adjusted_comparables.adjusted_prices) = n
        /\ \A i \in 1 .. n :
              ret.adjusted_comparables.adjusted_prices[i]
                  = RoundHalfEven(claimed[i][1], claimed[i][2])
        /\ ret.adjusted_comparables.value
              = RoundHalfEven(SumSeq([i \in 1 .. n |-> claimed[i][1]]), per_sqft[2] * n)

\* C16 (as claimed): the adjusted price of each comp weights the sqft
\* difference with 150, like the regression method, and the method's value
\* is the mean of these prices.
C16_SqftWeightedWith150 == AvmValued => AdjustedWith(<<150, 1>>)

\* C16 (amended): the adjusted price of each comp is its sale price plus the
\* (subject - comp) differences weighted with 5000 per bedroom, 10000 per
\* bathroom, 20000 per acre of lot and -500 per year of age as in the
\* regression method, but with the comps' average price per sqft (not 150)
\* per sqft; the method's value is the mean of the adjusted prices over all
\* comps.
C16_SqftWeightedWithAveragePrice ==
    AvmValued => AdjustedWith(AvgPricePerSqft(PricePerSqftValues(args.comparable_sales)))

\* two comps of 2000 and 2200 sqft whose average price per sqft is 205: the
\* second is adjusted by -200 * 205 for its size
C16_Witness ==
    /\ AvmValued
    /\ args.bedrooms = 3
    /\ Len(args.comparable_sales) = 2
    /\ args.comparable_sales[1].sqft = 2000
    /\ args.comparable_sales[2].sqft = 2200
    /\ ret.price_per_sqft.avg_price_per_sqft = <<205, 1>>
    /\ ret.adjusted_comparables.adjusted_prices[2] = 43100000

\* nothing but the sale dates can stand in the way of a valuation
AvmSoundButForDates(a) ==
    /\ a.comparable_sales # <<>>
    /\ ~AvmNoPriceFigure(a)
    /\ a.property_sqft # 0
    /\ \A i \in DOMAIN a.comparable_sales :
          {"sqft", "bedrooms"} \subseteq DOMAIN a.comparable_sales[i]

\* the days since sale that claim C17 lets a comp count for: those of the
\* date it carries in one of the two formats (or as a datetime), 0 days for
\* the current time otherwise
ClaimedDaysSinceSale(comp) ==
    IF "sale_date" \notin DOMAIN comp THEN 0
    ELSE IF comp.sale_date.type = "str" /\ comp.sale_date.fmt \in {"ymd", "mdy"}
         THEN comp.sale_date.days_ago
    ELSE IF comp.sale_date.type = "datetime" THEN comp.sale_date.days_ago
    ELSE 0

\* C17: whatever the sale_date of each comp is (missing, a YYYY-MM-DD
\* string, a MM/DD/YYYY string, an unparseable string or a non-string value),
\* avm_engine neither raises nor reports an error because of it: a date in
\* one of the two formats is parsed and the current time stands in for
\* every other value.
C17_EverySaleDateIsAccepted ==
    (AvmDone /\ AvmSoundButForDates(args)) =>
        /\ ret.kind = "valuation"
        /\ ret.price_per_sqft.avg_days_since_sale
              = << SumSeq([i \in DOMAIN args.comparable_sales |->
                              ClaimedDaysSinceSale(args.comparable_sales[i])]),
                   Len(args.comparable_sales) >>

\* C18: for a non-empty filtered set of n comps, price_range.median is the
\* sale price at 0-based index n // 2 of the ascending order (the
\* upper-middle one when n is even, not the mean of the two middle ones),
\* and price_range.min <= price_range.median <= price_range.max.
C18_MedianIsUpperMiddle ==
    (MlsDone /\ ret.comparable_sales # <<>>) =>
        LET comps == ret.comparable_sales
            n == Len(comps)
            median == ret.price_range.median
            below == {i \in 1 .. n : comps[i].sale_price < median}
            upto == {i \in 1 .. n : comps[i].sale_price <= median}
        IN  /\ \E i \in 1 .. n : comps[i].sale_price = median
            /\ Cardinality(below) <= n \div 2
            /\ Cardinality(upto) >= (n \div 2) + 1
            /\ \A i \in 1 .. n : ret.price_range.min <= comps[i].sale_price
            /\ \A i \in 1 .. n : comps[i].sale_price <= ret.price_range.max
            /\ \E i \in 1 .. n : comps[i].sale_price = ret.price_range.min
            /\ \E i \in 1 .. n : comps[i].sale_price = ret.price_range.max
            /\ ret.price_range.min <= median
            /\ median <= ret.price_range.max

\* the two three-bedroom comps, sold for 450000 and 420000: the median is
\* the higher price, not 435000
C18_Witness ==
    /\ MlsDone
    /\ args.max_bedrooms = Some(3)
    /\ Len(ret.comparable_sales) = 2
    /\ ret.price_range = [min |-> 420000, max |-> 450000, median |-> 450000]

\* the key under which the adjustment for a feature is recorded
AdjustmentKey(feature) == IF feature = "year_built" THEN "age" ELSE feature

\* the condition values of the lookup in use
ConditionLookup(a) ==
    IF a.adjustment_factors # <<>> /\ "condition" \in DOMAIN a.adjustment_factors
    THEN DOMAIN a.adjustment_factors.condition
    ELSE {"Excellent", "Good", "Fair", "Poor"}

\* the feature takes part in the comparison of subject and comp
Comparable(feature, subject, comp, a) ==
    /\ feature \in DOMAIN subject
    /\ feature \in DOMAIN comp
    /\ feature = "condition" =>
          (subject.condition \in ConditionLookup(a) /\ comp.condition \in ConditionLookup(a))

\* C19: for each comp and each of the features sqft, bedrooms, bathrooms,
\* lot_size, year_built and condition, an adjustment is recorded exactly
\* when the feature is present on both sides (and, for condition, both
\* values are in the lookup); a feature that is not adds no entry, nothing
\* to total_adjustment, and never makes the call fail.
C19_OnlySharedFeaturesAreAdjusted ==
    /\ CompsReturned =>
          \A k \in DOMAIN ret.analyzed_comparables :
              LET ac == ret.analyzed_comparables[k]
                  comp == args.comparable_sales[k]
                  subject == args.subject_property
                  features == {"sqft", "bedrooms", "bathrooms", "lot_size",
                               "year_built", "condition"}
                  shared == {f \in features : Comparable(f, subject, comp, args)}
              IN  /\ DOMAIN ac.adjustments = {AdjustmentKey(f) : f \in shared}
                  /\ ac.total_adjustment = SumValues(ac.adjustments)
                  /\ shared = {} => ac.total_adjustment = 0
    /\ (/\ CompsDone
        /\ args.comparable_sales # <<>>
        /\ \A k \in DOMAIN args.comparable_sales :
              Get(args.comparable_sales[k], "sale_price", 0) # 0)
          => ret.kind = "result"

\* a subject that has only bedrooms and an unknown condition, against a comp
\* that has every feature: bedrooms is the only adjustment
C19_Witness ==
    /\ CompsReturned
    /\ args.subject_property = [bedrooms |-> 3, condition |-> "Luxury"]
    /\ \E k \in DOMAIN ret.analyzed_comparables :
          /\ DOMAIN args.comparable_sales[k]
                = {"sale_price", "sqft", "bedrooms", "bathrooms", "lot_size",
                   "year_built", "condition"}
          /\ DOMAIN ret.analyzed_comparables[k].adjustments = {"bedrooms"}

\* C20: for every comp, adjusted_sale_price = sale_price + the sum of its
\* recorded adjustments and adjustment_percentage = total_adjustment /
\* sale_price * 100 (to two decimals); a comp with sale_price = 0 makes the
\* call raise a division error instead of returning an error payload (the
\* first comp in the list that has no usable sale_price decides which
\* exception it is), whereas an empty comp list returns an error payload.
C20_AdjustedPriceAndPercentage ==
    /\ CompsReturned =>
          \A k \in DOMAIN ret.analyzed_comparables :
              LET ac == ret.analyzed_comparables[k]
                  sale_price == args.comparable_sales[k].sale_price
              IN  /\ ac.adjusted_sale_price
                        = sale_price * 100 + SumValues(ac.adjustments)
                  /\ sale_price # 0
                  /\ 2 * Abs(ac.adjustment_percentage * sale_price
                                - ac.total_adjustment * 100) <= sale_price
    /\ (CompsDone /\ \E k \in DOMAIN args.comparable_sales :
                        Get(args.comparable_sales[k], "sale_price", 1) = 0)
          => /\ ret.kind = "raise"
             /\ (\A k \in DOMAIN args.comparable_sales :
                    "sale_price" \in DOMAIN args.comparable_sales[k])
                   => ret.exception = "ZeroDivisionError"
    /\ (CompsDone /\ args.comparable_sales = <<>>) => ret.kind = "error"

\* a comp adjusted by +77000 on 400000 (19.25 %)
C20_Witness ==
    /\ CompsReturned
    /\ \E k \in DOMAIN ret.analyzed_comparables :
          /\ args.comparable_sales[k].sale_price = 400000
          /\ ret.analyzed_comparables[k].total_adjustment = 7700000
          /\ ret.analyzed_comparables[k].adjusted_sale_price = 47700000
          /\ ret.analyzed_comparables[k].adjustment_percentage = 1925

\* the coefficient of variation of the adjusted prices is below 0.1: with
\* d[k] the deviation of the k-th price from the mean, times n, and S the
\* sum of the prices (in thousands of dollars), 100 * sum(d[k]^2) < n * S^2
ClaimedVariationBelowTenth(analyzed) ==
    LET n == Len(analyzed)
        x == [k \in 1 .. n |-> analyzed[k].adjusted_sale_price \div 100000]
        S == SumSeq(x)
        d == [k \in 1 .. n |-> n * x[k] - S]
    IN  100 * SumSeq([k \in 1 .. n |-> d[k] * d[k]]) < n * S * S

\* the number of the three checks of claim C21 that pass
ChecksPassed ==
    LET analyzed == ret.analyzed_comparables
    IN  (IF Len(args.comparable_sales) >= 3 THEN 1 ELSE 0)
        + (IF ClaimedVariationBelowTenth(analyzed) THEN 1 ELSE 0)
        + (IF \A k \in DOMAIN analyzed :
                 /\ analyzed[k].adjustment_percentage < 2000
                 /\ analyzed[k].adjustment_percentage > -2000
           THEN 1 ELSE 0)

ItemsOf(items, system) == {i \in DOMAIN items : items[i].system = system}

\* C22: each of the 8 systems produces at most one item from its score: an
\* urgent issue iff score < 30, a High-priority maintenance item iff
\* 30 <= score < 60, a Medium-priority one iff 60 <= score < 80, none iff
\* score >= 80; a system is in recommended_upgrades iff property_age >
\* 0.8 * its lifespan, whatever its score.
C22_OneItemPerScoreBucket ==
    ConditionDone =>
        \A k \in DOMAIN SystemNames :
            LET system == SystemNames[k]
                score == ret.system_scores[system]
                urgent == ItemsOf(ret.urgent_issues, system)
                maintenance == ItemsOf(ret.maintenance_items, system)
                high == {i \in maintenance : ret.maintenance_items[i].priority = "High"}
                medium == {i \in maintenance : ret.maintenance_items[i].priority = "Medium"}
                upgrades == ItemsOf(ret.recommended_upgrades, system)
            IN  /\ Cardinality(urgent) + Cardinality(maintenance) <= 1
                /\ maintenance = high \cup medium
                /\ urgent # {} <=> score < 300
                /\ high # {} <=> (300 <= score /\ score < 600)
                /\ medium # {} <=> (600 <= score /\ score < 800)
                /\ (urgent = {} /\ maintenance = {}) <=> score >= 800
                /\ Cardinality(upgrades) <= 1
                /\ upgrades # {} <=>
                      (5 * args.property_age > 4 * Systems[system].lifespan)

\* at 16 years hvac (lifespan 20) scores 32: a High-priority item, and no
\* upgrade, 16 being exactly 80% of 20; appliances are urgent and upgraded
C22_Witness ==
    /\ ConditionDone
    /\ args.property_age = 16
    /\ ret.system_scores.hvac = 320
    /\ \E i \in DOMAIN ret.maintenance_items :
          ret.maintenance_items[i].system = "hvac" /\ ret.maintenance_items[i].priority = "High"
    /\ ItemsOf(ret.recommended_upgrades, "hvac") = {}
    /\ ItemsOf(ret.recommended_upgrades, "appliances") # {}
    /\ ItemsOf(ret.urgent_issues, "appliances") # {}

MonitorDone == pc = "done" /\ tool = "market_monitor"

\* the four categories market_monitor knows, with the name their alerts carry
KnownCategories ==
    [economic |-> "Economic", development |-> "Development",
     regulatory |-> "Regulatory", demographic |-> "Demographic"]

\* C23: for every list monitor_types, every returned alert comes from a
\* category named in monitor_types, every key of the returned
\* monitoring_results is in monitor_types, a known category that is not
\* requested contributes no alert, and an unknown name in monitor_types is
\* ignored without error.
C23_AlertsOnlyFromRequestedCategories ==
    MonitorDone =>
        LET requested == {args.monitor_types[i] : i \in DOMAIN args.monitor_types}
        IN  /\ ret.kind = "result"
            /\ \A i \in DOMAIN ret.alerts :
                  \E c \in requested \cap DOMAIN KnownCategories :
                     ret.alerts[i].category = KnownCategories[c]
            /\ DOMAIN ret.monitoring_results \subseteq requested
            /\ DOMAIN ret.monitoring_results = requested \cap DOMAIN KnownCategories
            /\ \A c \in DOMAIN KnownCategories \ requested :
                  \A i \in DOMAIN ret.alerts : ret.alerts[i].category # KnownCategories[c]

\* "weather", "development" and "economic" are requested: no failure, the
\* one stored development alert, two result keys
C23_Witness ==
    /\ MonitorDone
    /\ args.monitor_types = <<"weather", "development", "economic">>
    /\ ret.kind = "result"
    /\ Len(ret.alerts) = 1
    /\ ret.alerts[1].category = "Development"
    /\ DOMAIN ret.monitoring_results = {"development", "economic"}

\* the health status claim C24 gives a score
ClaimedHealthStatus(score) ==
    IF score >= 80 THEN "Excellent"
    ELSE IF 60 <= score /\ score < 80 THEN "Good"
    ELSE IF 40 <= score /\ score < 60 THEN "Fair"
    ELSE "Poor"

\* C24: the health score is 100 - risk_score * 100 and the status is
\* Excellent from 80, Good from 60, Fair from 40 and Poor below; for every
\* location, monitor_types and alert_threshold the risk_score is 0,
\* risk_factors is empty, overall_risk is "Low" and the health is
\* "Excellent" with score 100.
C24_RiskIsAlwaysZero ==
    MonitorDone =>
        /\ ret.risk_assessment.risk_score = 0
        /\ ret.risk_assessment.risk_factors = <<>>
        /\ ret.risk_assessment.overall_risk = "Low"
        /\ ret.market_health.score = 100 - ret.risk_assessment.risk_score * 10
        /\ ret.market_health.score = 100
        /\ ret.market_health.status = ClaimedHealthStatus(ret.market_health.score)
        /\ ret.market_health.status = "Excellent"
        /\ \A risk_score \in 0 .. 10 :
              HealthStatus(HealthScore(risk_score))
                  = ClaimedHealthStatus(100 - risk_score * 10)

\* a call with a large alert_threshold that requests every category with a
\* stored risk indicator
C24_Witness ==
    /\ MonitorDone
    /\ args.alert_threshold = 50
    /\ args.monitor_types = <<"economic", "development", "regulatory">>
    /\ ret.risk_assessment.risk_score = 0
    /\ ret.market_health.status = "Excellent"

UiDone == pc = "done" /\ tool = "main"

\* the agent claim C25 attaches to a selection
SelectedAgent ==
    [c \in AgentChoices |->
        CASE c = "Market Analyzer" -> "MarketAnalyzerAgent"
          [] c = "Value Estimator" -> "ValueEstimatorAgent"
          [] c = "Trend Tracker" -> "TrendTrackerAgent"
          [] c = "Property Condition Assessor" -> "PropertyConditionAssessorAgent"
          [] c = "Property Valuation Team" -> "PropertyValuationTeam"]

\* one run call on the selected agent, then its result or the error on the
\* screen
OneCallThenRendered ==
    /\ ui.calls = <<SelectedAgent[args.agent_choice]>>
    /\ Len(ui.screen) >= 2
    /\ ui.screen[1] = "info"
    /\ ret.kind = "raise" => ui.screen = <<"info", "error">>
    /\ ret.kind = "response" => ui.screen[Len(ui.screen)] \in {"json", "write", "error"}
    /\ \A i \in DOMAIN ui.screen : ui.screen[i] # "warning"

\* C25 (as claimed): every submit, whatever the selection and the text
\* (empty or whitespace-only text included), ends with exactly one run call
\* on the selected agent and its result, or the caught error, displayed.
C25_EverySubmitCallsOnce == UiDone => OneCallThenRendered

\* the text is empty or consists of whitespace
OnlyWhitespace(text) == \A i \in DOMAIN text : text[i] \in {" ", "\t", "\n"}

\* C25 (amended): every submit whose text is not empty or whitespace-only
\* leads to exactly one run call on the selected agent (the team when the
\* team is selected) and then to its result on the screen, an exception of
\* the call or of the rendering being caught and displayed; a submit with
\* empty or whitespace-only text makes no run call and displays a warning.
C25_NonBlankSubmitCallsOnce ==
    /\ [](UiDone => IF OnlyWhitespace(args.user_input)
                    THEN ui = [screen |-> <<"warning">>, calls |-> <<>>]
                    ELSE OneCallThenRendered)
    /\ [](pc \in {"idle", "submitted", "called", "done"})
    /\ [](pc = "called" => ui.calls = <<SelectedAgent[args.agent_choice]>>)
    /\ (pc = "submitted" ~> UiDone)

\* " hi " sent to the team: one call, and a failure while the second chunk
\* of the answer is shown ends as a displayed error
C25_Witness ==
    /\ UiDone
    /\ args = [agent_choice |-> "Property Valuation Team",
               user_input |-> <<" ", "h", "i", " ">>]
    /\ ui.calls = <<"PropertyValuationTeam">>
    /\ ui.screen = <<"info", "write", "error">>

\* The items that decide whether a table key can be selected: the key and
\* each of its words.  An item that matches the key contains the key or one
\* of its words, and every earlier key that matches the bare word matches
\* every item containing the word; so the key's entry is selected for some
\* item exactly when it is selected for the key or for one of its words.
KeyProbes(key) == {key} \cup {Split(key, "_")[j] : j \in DOMAIN Split(key, "_")}

Selectable(k) ==
    \E item \in KeyProbes(CostDatabase[k].key) :
        CostDataFor(item).name = CostDatabase[k].name

\* C26: every key of the cost table is selectable: for each of the 20 keys
\* some item string makes the matching loop select that key's entry.
C26_EveryKeySelectable ==
    MaintenanceDone => \A k \in DOMAIN CostDatabase : Selectable(k)

\* the priority claim C27 gives an estimated cost (in cents)
ClaimedPriority(estimated_cost) ==
    IF estimated_cost > 500000 THEN "High"
    ELSE IF 200000 < estimated_cost /\ estimated_cost <= 500000 THEN "Medium"
    ELSE "Low"

\* the items of one prioritization list, in order
PriorityNames(list) == [i \in DOMAIN list |-> list[i].item]

\* C27: for every maintenance_items list, the empty one included, the call
\* returns a result (it does not raise) whose summary.number_of_items is
\* the length of the list and whose three prioritization lists hold exactly
\* one entry per item: High iff estimated_cost > 5000, Medium iff
\* 2000 < estimated_cost <= 5000, Low otherwise.
C27_EveryListIsPrioritized ==
    MaintenanceDone =>
        /\ ret.kind = "result"
        /\ ret.summary.number_of_items = Len(args.maintenance_items)
        /\ Len(ret.prioritization.high_priority)
              + Len(ret.prioritization.medium_priority)
              + Len(ret.prioritization.low_priority) = Len(args.maintenance_items)
        /\ \A p \in {"High", "Medium", "Low"} :
              LET list == CASE p = "High" -> ret.prioritization.high_priority
                            [] p = "Medium" -> ret.prioritization.medium_priority
                            [] p = "Low" -> ret.prioritization.low_priority
                  due == {k \in DOMAIN ret.cost_estimates :
                             ClaimedPriority(ret.cost_estimates[k].estimated_cost) = p}
              IN  /\ PriorityNames(list)
                        = FilterSeq([k \in DOMAIN ret.cost_estimates |->
                                        ret.cost_estimates[k].item], due)
                  /\ \A i \in DOMAIN list : list[i].priority = p

\* every system's age penalty has reached its cap of 50
AllPenaltiesCapped(property_age) ==
    \A s \in DOMAIN Systems : property_age * Systems[s].age_factor >= 500

\* C28: for every property_age >= 0 the overall condition score is at most
\* 85, the mean of the 8 base scores, and no older property scores higher,
\* so "Excellent" is never returned; the rating is "Good" at age 0 and
\* "Critical" once every system's age penalty has reached its cap of 50.
C28_OverallAtMostEightyFive ==
    (ConditionDone /\ args.property_age >= 0) =>
        /\ ret.overall_condition <= 850
        /\ 8 * 850 = SumSeq([k \in DOMAIN SystemNames |-> Systems[SystemNames[k]].base_score])
        /\ \A older \in args.property_age .. (MaxAge + 1) :
              OverallCondition(ConditionScores(older)) <= ret.overall_condition
        /\ ret.condition_rating # "Excellent"
        /\ args.property_age = 0 =>
              (ret.overall_condition = 850 /\ ret.condition_rating = "Good")
        /\ AllPenaltiesCapped(args.property_age) => ret.condition_rating = "Critical"

\* at 34 years the last penalty (structural, 1.5 a year) reaches 50: the
\* overall score is 35, "Critical"
C28_Witness ==
    /\ ConditionDone
    /\ args.property_age = 34
    /\ AllPenaltiesCapped(args.property_age)
    /\ ~AllPenaltiesCapped(args.property_age - 1)
    /\ ret.overall_condition = 350
    /\ ret.condition_rating = "Critical"

\* the urgent entries a system score produced, and those of known issues
ScoreDerivedUrgent == {i \in DOMAIN ret.urgent_issues : ret.urgent_issues[i].priority = "Urgent"}

GeneralUrgent == {i \in DOMAIN ret.urgent_issues : ret.urgent_issues[i].system = "General"}

\* the known issues the caller supplied, none for None
SuppliedIssues == IF args.known_issues = None THEN <<>> ELSE args.known_issues[1]

\* C29: for every property_age the only system reported as a score-derived
\* urgent issue is appliances, every other system's minimum score (base - 50)
\* being at least 30; every other entry of urgent_issues has system "General"
\* and comes from a known issue of the caller, one entry per known issue.
C29_OnlyAppliancesScoreUrgent ==
    ConditionDone =>
        /\ \A i \in ScoreDerivedUrgent : ret.urgent_issues[i].system = "appliances"
        /\ \A s \in DOMAIN Systems :
              s # "appliances" => /\ Systems[s].base_score - 500 >= 300
                                  /\ ret.system_scores[s] >= 300
        /\ DOMAIN ret.urgent_issues = ScoreDerivedUrgent \cup GeneralUrgent
        /\ ScoreDerivedUrgent \cap GeneralUrgent = {}
        /\ [i \in DOMAIN FilterSeq(ret.urgent_issues, GeneralUrgent) |->
               FilterSeq(ret.urgent_issues, GeneralUrgent)[i].issue] = SuppliedIssues
        /\ \A i \in GeneralUrgent : ret.urgent_issues[i].priority = "High"

\* an old property with two known issues: the appliances entry, then one
\* "General" entry for each issue; hvac and interior sit exactly at 30
C29_Witness ==
    /\ ConditionDone
    /\ args.property_age = MaxAge
    /\ args.known_issues = Some(<<"roof leak", "mold">>)
    /\ Len(ret.urgent_issues) = 3
    /\ ret.urgent_issues[1].system = "appliances"
    /\ ret.urgent_issues[2].issue = "roof leak"
    /\ ret.urgent_issues[3].issue = "mold"
    /\ ret.system_scores["hvac"] = 300
    /\ ret.system_scores["interior"] = 300

\* the cost band of each severity, first and last value
CostBands ==
    [Minor |-> [low |-> 100, high |-> 999],
     Moderate |-> [low |-> 1000, high |-> 4999],
     Major |-> [low |-> 5000, high |-> 19999]]

\* C30: whatever the random draws, total_issues is the number of detailed
\* findings and the sum of the three severity_breakdown counts, at most 14;
\* critical_issues is severity_breakdown["Major"] and the length of
\* negotiation_points; total_estimated_cost is the sum of the findings' costs;
\* each finding's cost lies in the band of its severity.
C30_SummaryAgreesWithFindings ==
    InspectionDone =>
        LET summary == ret.findings_summary
            findings == ret.detailed_findings
            count(sev) == Cardinality({i \in DOMAIN findings : findings[i].severity = sev})
        IN  /\ summary.total_issues = Len(findings)
            /\ summary.total_issues = summary.severity_breakdown.Minor
                                        + summary.severity_breakdown.Moderate
                                        + summary.severity_breakdown.Major
            /\ \A sev \in DOMAIN CostBands : summary.severity_breakdown[sev] = count(sev)
            /\ summary.total_issues <= 14
            /\ summary.critical_issues = summary.severity_breakdown.Major
            /\ summary.critical_issues = Len(ret.recommendations.negotiation_points)
            /\ summary.total_estimated_cost
                  = SumSeq([i \in DOMAIN findings |-> findings[i].estimated_cost])
            /\ \A i \in DOMAIN findings :
                  /\ findings[i].severity \in DOMAIN CostBands
                  /\ findings[i].estimated_cost >= CostBands[findings[i].severity].low
                  /\ findings[i].estimated_cost <= CostBands[findings[i].severity].high

\* a report with findings of more than one severity, one of them a
\* "Moderate" finding at the top of its band
C30_Witness ==
    /\ InspectionDone
    /\ ret.findings_summary.total_issues >= 3
    /\ ret.findings_summary.severity_breakdown.Moderate >= 1
    /\ ret.findings_summary.critical_issues >= 1
    /\ Len(ret.recommendations.negotiation_points) >= 1
    /\ \E i \in DOMAIN ret.detailed_findings :
          /\ ret.detailed_findings[i].severity = "Moderate"
          /\ ret.detailed_findings[i].estimated_cost = 4999

====
